---- MODULE Spec2Model ----
(***************************************************************************)
(* A model of gitre: the history rewriter (gitre/rewriter.py) and the      *)
(* JSON extraction applied to model responses (gitre/generator.py).        *)
(*                                                                         *)
(* Text is a sequence of one-token strings.  The tokens "nl", "tab", "sp", *)
(* "sq", "dq" and "bs" stand for the newline, the tab, the blank, the      *)
(* single quote, the double quote and the backslash; "e2a" and "e2b" are   *)
(* the two UTF-8 bytes of the non-ASCII character "E2".                    *)
(***************************************************************************)
EXTENDS Integers, Sequences, FiniteSets, TLC

VARIABLES
    pc,             \* position inside rewrite_history
    repo,           \* the git repository: commits, branches, remotes, upstream
    repo0,          \* the repository as it was when rewrite_history was called
    now,            \* the wall clock, in seconds
    messages,       \* the GeneratedMessage list passed to rewrite_history
    backup_branch,  \* rewrite_history local: name returned by create_backup
    hash_map,       \* rewrite_history local: {full hash: new message}
    results,        \* rewrite_history local: {short hash: subject}
    remotes,        \* rewrite_history local: what save_remotes returned
    callback_file,  \* the temporary callback file: absent, or its script
    filter_calls,   \* number of git filter-repo invocations so far
    cursor,         \* filter-repo: index of the next commit of the pass
    stream,         \* filter-repo: the commits rewritten so far in the pass
    restore_idx,    \* restore_remotes: index of the next remote to add
    outcome,        \* how rewrite_history ended: none, a return value or an error
    steps,          \* the steps rewrite_history has run, each with its success
    push_log,       \* the git push commands force_push has issued
    push_outcome,   \* how force_push ended
    ex_in,          \* _extract_json: how the input text was put together
    ex_text,        \* _extract_json: the input text
    ex_out,         \* _extract_json: its result
    ps_raw,         \* _parse_single_response: the raw response object
    ps_commit,      \* _parse_single_response: the commit it is for
    ps_out,         \* _parse_single_response: the message built, or the error
    bt_pc,          \* generate_messages_batch: position inside the call
    bt_commits,     \* generate_messages_batch: the commits passed in
    bt_raw,         \* generate_messages_batch local: the response array
    bt_idx,         \* generate_messages_batch local: loop index (1-based)
    bt_messages,    \* generate_messages_batch local: the messages so far
    bt_calls,       \* the _call_claude calls made: the batch call, single calls
    bt_out,         \* how generate_messages_batch ended
    td_text,        \* truncate_diff: the patch text
    td_max,         \* truncate_diff: max_bytes
    td_out,         \* truncate_diff: its result
    gd_commit,      \* get_diff, _parse_numstat: the commit looked at
    gd_cmds,        \* the git commands get_diff has run
    gd_out,         \* get_diff: its result
    ns_cmds,        \* the git commands _parse_numstat has run
    ns_out,         \* _parse_numstat: its result
    cm_in,          \* gitre commit: the repository, the cache and the options
    cm_pc,          \* gitre commit: start, exit (with cm_code) or flow
    cm_code,        \* gitre commit: the exit code
    cm_err,         \* gitre commit: the lines written to stderr
    cm_flow,        \* gitre commit: the messages handed to _run_commit_flow
    bk_repo,        \* create_backup: the branches of the repository
    bk_clock,       \* create_backup: the wall clock, in ticks
    bk_log,         \* create_backup: how each call so far has ended
    fl_in,          \* _run_commit_flow: its arguments
    fl_pc,          \* _run_commit_flow: position inside the call
    fl_log,         \* _run_commit_flow: the steps run so far, each with its outcome
    fl_exit,        \* _run_commit_flow: how it ended
    az_in,          \* gitre analyze: the commits found and the options
    az_pc,          \* gitre analyze: position inside the command
    az_messages,    \* gitre analyze: the messages generated so far
    az_out,         \* gitre analyze: exit code, stderr, the analysis saved
    lg_raw,         \* get_commits: the output of git log
    lg_out,         \* get_commits: its result
    cl_in,          \* format_changelog: the messages and the tags
    cl_out          \* format_changelog: the sections of its result

rw_vars == <<pc, repo, repo0, now, messages, backup_branch, hash_map, results,
             remotes, callback_file, filter_calls, cursor, stream, restore_idx,
             outcome, steps>>
push_vars == <<push_log, push_outcome>>
ex_vars == <<ex_in, ex_text, ex_out>>
parse_vars == <<ps_raw, ps_commit, ps_out>>
batch_vars == <<bt_pc, bt_commits, bt_raw, bt_idx, bt_messages, bt_calls, bt_out>>
trunc_vars == <<td_text, td_max, td_out>>
diff_vars == <<gd_commit, gd_cmds, gd_out, ns_cmds, ns_out>>
cli_vars == <<cm_in, cm_pc, cm_code, cm_err, cm_flow>>
backup_vars == <<bk_repo, bk_clock, bk_log>>
flow_vars == <<fl_in, fl_pc, fl_log, fl_exit>>
analyze_vars == <<az_in, az_pc, az_messages, az_out>>
log_vars == <<lg_raw, lg_out>>
changelog_vars == <<cl_in, cl_out>>
lib_vars == <<parse_vars, batch_vars, trunc_vars, diff_vars, cli_vars, backup_vars,
              flow_vars, analyze_vars, log_vars, changelog_vars>>
\* What a call of one library function leaves alone.
not_parse_vars == <<rw_vars, push_vars, ex_vars, batch_vars, trunc_vars, diff_vars,
                   cli_vars, backup_vars, flow_vars,
                   analyze_vars, log_vars, changelog_vars>>
not_batch_vars == <<rw_vars, push_vars, ex_vars, parse_vars, trunc_vars, diff_vars,
                   cli_vars, backup_vars, flow_vars,
                   analyze_vars, log_vars, changelog_vars>>
not_trunc_vars == <<rw_vars, push_vars, ex_vars, parse_vars, batch_vars, diff_vars,
                   cli_vars, backup_vars, flow_vars,
                   analyze_vars, log_vars, changelog_vars>>
not_diff_vars == <<rw_vars, push_vars, ex_vars, parse_vars, batch_vars, trunc_vars,
                   cli_vars, backup_vars, flow_vars,
                   analyze_vars, log_vars, changelog_vars>>
not_cli_vars == <<rw_vars, push_vars, ex_vars, parse_vars, batch_vars, trunc_vars,
                  diff_vars, backup_vars, flow_vars, analyze_vars, log_vars,
                  changelog_vars>>
not_backup_vars == <<rw_vars, push_vars, ex_vars, parse_vars, batch_vars, trunc_vars,
                     diff_vars, cli_vars, flow_vars, analyze_vars, log_vars,
                     changelog_vars>>
not_flow_vars == <<rw_vars, push_vars, ex_vars, parse_vars, batch_vars, trunc_vars,
                   diff_vars, cli_vars, backup_vars, analyze_vars, log_vars,
                   changelog_vars>>
not_analyze_vars == <<rw_vars, push_vars, ex_vars, parse_vars, batch_vars, trunc_vars,
                      diff_vars, cli_vars, backup_vars, flow_vars, log_vars, changelog_vars>>
not_log_vars == <<rw_vars, push_vars, ex_vars, parse_vars, batch_vars, trunc_vars,
                  diff_vars, cli_vars, backup_vars, flow_vars, analyze_vars,
                  changelog_vars>>
not_changelog_vars == <<rw_vars, push_vars, ex_vars, parse_vars, batch_vars, trunc_vars,
                        diff_vars, cli_vars, backup_vars, flow_vars, analyze_vars, log_vars>>
vars == <<rw_vars, push_vars, ex_vars, lib_vars>>

(***************************************************************************)
(* Bounds of the model.                                                    *)
(***************************************************************************)
NumCommits == 3
MaxArrayLen == 2

(***************************************************************************)
(* Sequences and insertion-ordered dictionaries (Python dict).             *)
(***************************************************************************)
Range(s) == {s[i] : i \in 1..Len(s)}

Has(s, c) == \E i \in 1..Len(s) : s[i] = c

\* s[a..b] in 1-based inclusive positions; empty when a > b.
Slice(s, a, b) == IF a > b THEN <<>> ELSE SubSeq(s, a, b)

\* Index of the first element of s equal to c at or after position i; 0 if none.
IndexFrom(s, c, i) ==
    IF \E k \in i..Len(s) : s[k] = c
    THEN CHOOSE k \in i..Len(s) : s[k] = c /\ \A j \in i..(k - 1) : s[j] # c
    ELSE 0

\* str.find(c): index of the first occurrence, 0 if none.
Find(s, c) == IndexFrom(s, c, 1)

RECURSIVE Concat(_)
Concat(ss) == IF ss = <<>> THEN <<>> ELSE Head(ss) \o Concat(Tail(ss))

DictHas(d, k) == \E i \in 1..Len(d) : d[i][1] = k

DictGet(d, k) == d[CHOOSE i \in 1..Len(d) : d[i][1] = k][2]

\* d[k] = v: an existing key keeps its position, a new key is appended.
DictSet(d, k, v) ==
    IF DictHas(d, k)
    THEN [i \in 1..Len(d) |-> IF d[i][1] = k THEN <<k, v>> ELSE d[i]]
    ELSE Append(d, <<k, v>>)

DictKeys(d) == [i \in 1..Len(d) |-> d[i][1]]

(***************************************************************************)
(* Whitespace handling of Python's str.strip and str.splitlines, on tokens.*)
(***************************************************************************)
IsSpace(c) == c \in {"sp", "nl", "tab"}

RECURSIVE LStrip(_)
LStrip(s) == IF s # <<>> /\ IsSpace(Head(s)) THEN LStrip(Tail(s)) ELSE s

RECURSIVE RStrip(_)
RStrip(s) ==
    IF s # <<>> /\ IsSpace(s[Len(s)]) THEN RStrip(SubSeq(s, 1, Len(s) - 1)) ELSE s

Strip(s) == LStrip(RStrip(s))

\* str.splitlines(): the lines of s, the line breaks dropped, no empty last line.
RECURSIVE SplitLines(_)
SplitLines(s) ==
    IF s = <<>> THEN <<>>
    ELSE LET i == Find(s, "nl")
         IN IF i = 0 THEN <<s>>
            ELSE <<Slice(s, 1, i - 1)>> \o SplitLines(Slice(s, i + 1, Len(s)))

\* str.replace(c, ""): every occurrence of the token c removed.
RECURSIVE Remove(_, _)
Remove(s, c) ==
    IF s = <<>> THEN <<>>
    ELSE IF Head(s) = c THEN Remove(Tail(s), c)
    ELSE <<Head(s)>> \o Remove(Tail(s), c)

(***************************************************************************)
(* Python string literals: repr() writes one, the interpreter reads it.    *)
(***************************************************************************)
\* The quote repr() picks: double quotes only when the text holds a single
\* quote and no double quote.
ReprQuote(s) == IF Has(s, "sq") /\ ~Has(s, "dq") THEN "dq" ELSE "sq"

ReprChar(c, q) ==
    IF c = "bs" THEN <<"bs", "bs">>
    ELSE IF c = "nl" THEN <<"bs", "n">>
    ELSE IF c = "tab" THEN <<"bs", "t">>
    ELSE IF c = q THEN <<"bs", c>>
    ELSE <<c>>

PyRepr(s) ==
    LET q == ReprQuote(s)
    IN <<q>> \o Concat([i \in 1..Len(s) |-> ReprChar(s[i], q)]) \o <<q>>

\* The characters between the quotes of a literal, escapes resolved.
RECURSIVE Unescape(_)
Unescape(s) ==
    IF s = <<>> THEN <<>>
    ELSE IF Head(s) = "bs" /\ Len(s) >= 2
    THEN LET c == s[2]
             r == IF c = "n" THEN "nl" ELSE IF c = "t" THEN "tab" ELSE c
         IN <<r>> \o Unescape(Slice(s, 3, Len(s)))
    ELSE <<Head(s)>> \o Unescape(Tail(s))

PyEvalLiteral(lit) == Unescape(Slice(lit, 2, Len(lit) - 1))

\* str.encode('utf-8'): ASCII tokens are one byte each, "E2" is a character
\* of two bytes, "E3" one of three, and "FFFD" is the replacement character
\* U+FFFD, of three bytes.
EncodeChar(c) ==
    CASE c = "E2" -> <<"e2a", "e2b">>
      [] c = "E3" -> <<"e3a", "e3b", "e3c">>
      [] c = "FFFD" -> <<"fda", "fdb", "fdc">>
      [] OTHER -> <<c>>

EncodeUtf8(s) == Concat([i \in 1..Len(s) |-> EncodeChar(s[i])])

\* The longest prefix of lead that bytes starts with.
RECURSIVE CommonPrefix(_, _)
CommonPrefix(bytes, lead) ==
    IF bytes = <<>> \/ lead = <<>> \/ Head(bytes) # Head(lead) THEN 0
    ELSE 1 + CommonPrefix(Tail(bytes), Tail(lead))

MultiByteChars == {"E2", "E3", "FFFD"}

\* bytes.decode('utf-8', errors='replace'): a complete sequence is its
\* character; a sequence that is cut short, and a byte that starts nothing,
\* become one U+FFFD.
RECURSIVE DecodeUtf8Replace(_)
DecodeUtf8Replace(bytes) ==
    IF bytes = <<>> THEN <<>>
    ELSE IF \E c \in MultiByteChars : CommonPrefix(bytes, EncodeChar(c)) > 0
    THEN LET c == CHOOSE x \in MultiByteChars : CommonPrefix(bytes, EncodeChar(x)) > 0
             k == CommonPrefix(bytes, EncodeChar(c))
         IN (IF k = Len(EncodeChar(c)) THEN <<c>> ELSE <<"FFFD">>)
            \o DecodeUtf8Replace(Slice(bytes, k + 1, Len(bytes)))
    ELSE IF \E c \in MultiByteChars : Has(EncodeChar(c), Head(bytes))
    THEN <<"FFFD">> \o DecodeUtf8Replace(Tail(bytes))
    ELSE <<Head(bytes)>> \o DecodeUtf8Replace(Tail(bytes))

(***************************************************************************)
(* The repository and the inputs of rewrite_history.                       *)
(***************************************************************************)
DigitChar == <<"1", "2", "3", "4", "5", "6">>

\* The full hash and the short hash (a prefix of it) of the i-th commit.
FullHash(i) == <<DigitChar[i], "f">>
ShortHash(i) == <<DigitChar[i]>>
ForeignHash == <<"9", "f">>

MainBranch == <<"main", 0>>

NoBody == [some |-> FALSE, v |-> <<>>]
Body(b) == [some |-> TRUE, v |-> b]

\* The original messages: every commit carries the same lazy message, or
\* each its own.
OriginalMessage(mode, i) ==
    IF mode = "same" THEN <<"e", "t", "c", "nl">> ELSE <<"m", DigitChar[i], "nl">>

InitialCommits(mode) ==
    [i \in 1..NumCommits |->
        [id |-> FullHash(i),
         message |-> OriginalMessage(mode, i),
         author |-> IF i = 1 THEN "alice" ELSE "bob"]]

\* What may be proposed for the commit with hash h, short hash sh and
\* distinguishing character d: nothing, or one GeneratedMessage.
MessageChoices(h, sh, d) ==
    { <<>>,
      <<[hash |-> h, short_hash |-> sh, subject |-> <<"A", d>>, body |-> NoBody]>>,
      <<[hash |-> h, short_hash |-> sh, subject |-> <<"B">>, body |-> Body(<<>>)]>>,
      <<[hash |-> h, short_hash |-> sh, subject |-> <<"C", "sq">>,
         body |-> Body(<<d, "nl", "bs", "E2">>)]>> }

ForeignChoices ==
    { <<>>,
      <<[hash |-> ForeignHash, short_hash |-> <<"9">>, subject |-> <<"F">>,
         body |-> NoBody]>> }

\* The message lists: at most one message per commit, in history order,
\* then possibly one for a hash that is not in the repository.
RECURSIVE MessageListsUpTo(_)
MessageListsUpTo(i) ==
    IF i = 0 THEN { <<>> }
    ELSE { p \o c : p \in MessageListsUpTo(i - 1),
                    c \in MessageChoices(FullHash(i), ShortHash(i), DigitChar[i]) }

MessageLists == { p \o f : p \in MessageListsUpTo(NumCommits), f \in ForeignChoices }

Origin == <<"origin">>
Upstream == <<"upstream">>
PlainUrl == <<"https://example.com/r.git">>
OtherUrl == <<"https://example.com/u.git">>
\* A local path with a directory named "(fetch)".
FetchUrl == <<"/srv/", "(fetch)", "/r.git">>

RemoteConfigs ==
    { <<>> }
    \cup { <<[name |-> Origin, url |-> u]>> : u \in {PlainUrl, FetchUrl} }
    \cup { <<[name |-> Upstream, url |-> OtherUrl]>> }
    \cup { <<[name |-> Origin, url |-> u], [name |-> Upstream, url |-> OtherUrl]>> :
             u \in {PlainUrl, FetchUrl} }
    \cup { <<[name |-> Upstream, url |-> OtherUrl], [name |-> Origin, url |-> PlainUrl]>> }

NoUpstream == [set |-> FALSE, remote |-> <<>>, branch |-> MainBranch]

HeadId(r) == r.commits[Len(r.commits)].id

RemoteNames(r) == [i \in 1..Len(r.remotes) |-> r.remotes[i].name]

InitialRepo(mode, rs, stale) ==
    LET cs == InitialCommits(mode)
    IN [commits |-> cs,
        current |-> MainBranch,
        branches |-> <<<<MainBranch, cs[Len(cs)].id>>>>
                     \o (IF stale THEN <<<<(<<"gitre-backup-", 1>>), cs[1].id>>>> ELSE <<>>),
        remotes |-> rs,
        upstream |-> IF \E i \in 1..Len(rs) : rs[i].name = Origin
                     THEN [set |-> TRUE, remote |-> Origin, branch |-> MainBranch]
                     ELSE NoUpstream]

NoOutcome == [kind |-> "none", text |-> <<>>, value |-> <<>>]
NoFile == [exists |-> FALSE, script |-> <<>>]

(***************************************************************************)
(* gitre/rewriter.py                                                       *)
(***************************************************************************)
Systems == {"darwin", "linux", "other"}

get_install_instructions(system) ==
    IF system = "darwin" THEN <<"Install git-filter-repo on macOS:", "brew">>
    ELSE IF system = "linux" THEN <<"Install git-filter-repo on Linux:", "apt-get">>
    ELSE <<"Install git-filter-repo on Windows:", "pip">>

\* The error without the install instructions.
NotInstalledErrorBare(system) ==
    [kind |-> "RuntimeError", text |-> <<"git-filter-repo is not installed.">>,
     value |-> <<>>]

NotInstalledError(system) ==
    [kind |-> "RuntimeError",
     text |-> <<"git-filter-repo is not installed.", "nl">>
              \o get_install_instructions(system),
     value |-> <<>>]

CalledProcessError(cmd) ==
    [kind |-> "CalledProcessError", text |-> <<cmd>>, value |-> <<>>]

\* A backup name without the timestamp.
BackupNameUnstamped(t) == <<"gitre-backup-", 0>>

\* strftime("%Y%m%dT%H%M%SZ") has a resolution of one second.
BackupName(t) == <<"gitre-backup-", t>>

\* A backup whose failure goes unnoticed (git branch run without check=True).
create_backup_unchecked(r, t, git_ok) ==
    LET name == BackupName(t)
    IN IF ~git_ok \/ DictHas(r.branches, name)
       THEN [ok |-> TRUE, name |-> name, repo |-> r]
       ELSE [ok |-> TRUE, name |-> name,
             repo |-> [r EXCEPT !.branches = Append(@, <<name, HeadId(r)>>)]]

\* git branch <name>: refused when the name is taken (or, git_ok being false,
\* for any other reason); otherwise a new branch at HEAD.
create_backup(r, t, git_ok) ==
    LET name == BackupName(t)
    IN IF ~git_ok \/ DictHas(r.branches, name)
       THEN [ok |-> FALSE, name |-> name, repo |-> r]
       ELSE [ok |-> TRUE, name |-> name,
             repo |-> [r EXCEPT !.branches = Append(@, <<name, HeadId(r)>>)]]

\* rewrite_history, step 3: the text that replaces a commit's message.
ComposeMessage(msg) ==
    IF msg.body.some /\ msg.body.v # <<>>
    THEN msg.subject \o <<"nl", "nl">> \o msg.body.v
    ELSE msg.subject

\* A mapping that holds the first message only.
BuildHashMapOfFirst(msgs, acc) ==
    IF msgs = <<>> THEN acc
    ELSE DictSet(acc, Head(msgs).hash, ComposeMessage(Head(msgs)))

RECURSIVE BuildHashMap(_, _)
BuildHashMap(msgs, acc) ==
    IF msgs = <<>> THEN acc
    ELSE BuildHashMap(Tail(msgs), DictSet(acc, Head(msgs).hash, ComposeMessage(Head(msgs))))

RECURSIVE BuildResults(_, _)
BuildResults(msgs, acc) ==
    IF msgs = <<>> THEN acc
    ELSE BuildResults(Tail(msgs), DictSet(acc, Head(msgs).short_hash, Head(msgs).subject))

\* The script text: one "  <repr(hash)>: <repr(message)>," line per entry,
\* followed by the fixed lookup code.
_build_commit_callback(hm) ==
    [i \in 1..Len(hm) |-> [key |-> PyRepr(hm[i][1]), val |-> PyRepr(hm[i][2])]]

\* Running the script on one commit: HASH_MAP is read from its literals,
\* and the message is replaced when the decoded original id is a key.
RECURSIVE EvalHashMap(_, _)
EvalHashMap(script, acc) ==
    IF script = <<>> THEN acc
    ELSE EvalHashMap(Tail(script),
                     DictSet(acc, PyEvalLiteral(Head(script).key),
                                  PyEvalLiteral(Head(script).val)))

\* A callback keyed by content: commits sharing a message share the last
\* replacement written for it.
RunCallbackByContent(script, commit) ==
    LET HASH_MAP == EvalHashMap(script, <<>>)
    IN IF HASH_MAP # <<>>
       THEN [commit EXCEPT !.message =
                EncodeUtf8(HASH_MAP[Len(HASH_MAP)][2]) \o <<"nl">>]
       ELSE commit

\* A callback that blanks the message of a commit it does not know.
RunCallbackWithDefault(script, commit) ==
    LET HASH_MAP == EvalHashMap(script, <<>>)
        orig_hex == commit.original_id
    IN [commit EXCEPT !.message =
            IF DictHas(HASH_MAP, orig_hex)
            THEN EncodeUtf8(DictGet(HASH_MAP, orig_hex)) \o <<"nl">>
            ELSE <<"nl">>]

RunCallback(script, commit) ==
    LET HASH_MAP == EvalHashMap(script, <<>>)
        orig_hex == commit.original_id
    IN IF DictHas(HASH_MAP, orig_hex)
       THEN [commit EXCEPT !.message = EncodeUtf8(DictGet(HASH_MAP, orig_hex)) \o <<"nl">>]
       ELSE commit

\* git remote -v: a fetch line and a push line per remote.
RemoteVerboseOutput(rs) ==
    Concat([i \in 1..Len(rs) |->
        rs[i].name \o <<"tab">> \o rs[i].url \o <<"sp", "(fetch)", "nl">>
        \o rs[i].name \o <<"tab">> \o rs[i].url \o <<"sp", "(push)", "nl">>])

RECURSIVE ParseRemoteLines(_, _)
ParseRemoteLines(lines, acc) ==
    IF lines = <<>> THEN acc
    ELSE LET line == Head(lines)
             t == Find(line, "tab")
         IN IF ~Has(line, "(fetch)") \/ t = 0
            THEN ParseRemoteLines(Tail(lines), acc)
            ELSE ParseRemoteLines(Tail(lines),
                    DictSet(acc, Strip(Slice(line, 1, t - 1)),
                            Strip(Remove(Slice(line, t + 1, Len(line)), "(fetch)"))))

save_remotes(r) ==
    ParseRemoteLines(SplitLines(Strip(RemoteVerboseOutput(r.remotes))), <<>>)

\* git remote add <name> <url>: refused when the name is taken.
RemoteAdd(r, name, url, git_ok) ==
    IF ~git_ok \/ (\E i \in 1..Len(r.remotes) : r.remotes[i].name = name)
    THEN [ok |-> FALSE, repo |-> r]
    ELSE [ok |-> TRUE, repo |-> [r EXCEPT !.remotes = Append(@, [name |-> name, url |-> url])]]

\* git remote: one name per line, in the listing order.
RemoteListOutput(rs) == Concat([i \in 1..Len(rs) |-> rs[i].name \o <<"nl">>])

RECURSIVE StrippedNonEmpty(_)
StrippedNonEmpty(lines) ==
    IF lines = <<>> THEN <<>>
    ELSE (IF Strip(Head(lines)) # <<>> THEN <<Strip(Head(lines))>> ELSE <<>>)
         \o StrippedNonEmpty(Tail(lines))

\* A push to the last listed remote instead of the first.
force_push_last(r) ==
    LET branch == r.current
        listed == StrippedNonEmpty(SplitLines(Strip(RemoteListOutput(r.remotes))))
    IN IF listed = <<>>
       THEN [push |-> FALSE, cmd |-> <<>>,
             error |-> [kind |-> "RuntimeError",
                        text |-> <<"No remotes configured. Cannot push.">>,
                        value |-> <<>>]]
       ELSE [push |-> TRUE,
             cmd |-> <<[force |-> TRUE, remote |-> listed[Len(listed)], branch |-> branch]>>,
             error |-> NoOutcome]

\* force_push up to its decision: the error, or the one push command to run.
force_push(r) ==
    LET branch == r.current
        listed == StrippedNonEmpty(SplitLines(Strip(RemoteListOutput(r.remotes))))
    IN IF listed = <<>>
       THEN [push |-> FALSE, cmd |-> <<>>,
             error |-> [kind |-> "RuntimeError",
                        text |-> <<"No remotes configured. Cannot push.">>,
                        value |-> <<>>]]
       ELSE [push |-> TRUE,
             cmd |-> <<[force |-> TRUE, remote |-> listed[1], branch |-> branch]>>,
             error |-> NoOutcome]

(***************************************************************************)
(* JSON, as json.loads reads it and json.dumps writes it.  A value is a    *)
(* record of one shape: t is its type, s the text of a string or number,   *)
(* d the members of an object (a dict) and a the items of an array.        *)
(***************************************************************************)
JNone == [t |-> "none", s |-> <<>>, d |-> <<>>, a |-> <<>>]
JNull == [t |-> "null", s |-> <<>>, d |-> <<>>, a |-> <<>>]
JStr(x) == [t |-> "str", s |-> x, d |-> <<>>, a |-> <<>>]
JNum(x) == [t |-> "num", s |-> x, d |-> <<>>, a |-> <<>>]
JObj(members) == [t |-> "obj", s |-> <<>>, d |-> members, a |-> <<>>]
JArr(items) == [t |-> "arr", s |-> <<>>, d |-> <<>>, a |-> items]

Digits == {"1", "5"}

At(s, i) == IF 1 <= i /\ i <= Len(s) THEN s[i] ELSE "EOF"

RECURSIVE SkipWs(_, _)
SkipWs(s, i) == IF IsSpace(At(s, i)) THEN SkipWs(s, i + 1) ELSE i

RECURSIVE SkipDigits(_, _)
SkipDigits(s, i) == IF At(s, i) \in Digits THEN SkipDigits(s, i + 1) ELSE i

ParseFail == [ok |-> FALSE, v |-> JNone, i |-> 0]
ParseOk(v, i) == [ok |-> TRUE, v |-> v, i |-> i]

\* A string starting at the quote s[i]: it ends at the next quote and may
\* hold no control character.
ParseString(s, i) ==
    LET j == IndexFrom(s, "dq", i + 1)
    IN IF j = 0 \/ (\E k \in (i + 1)..(j - 1) : s[k] \in {"nl", "tab"})
       THEN ParseFail
       ELSE ParseOk(JStr(Slice(s, i + 1, j - 1)), j + 1)

RECURSIVE ParseValue(_, _)
RECURSIVE ParseMembers(_, _, _)
RECURSIVE ParseItems(_, _, _)

ParseValue(s, i) ==
    LET c == At(s, i)
    IN CASE c = "{" ->
                LET j == SkipWs(s, i + 1)
                IN IF At(s, j) = "}" THEN ParseOk(JObj(<<>>), j + 1)
                   ELSE ParseMembers(s, j, <<>>)
         [] c = "[" ->
                LET j == SkipWs(s, i + 1)
                IN IF At(s, j) = "]" THEN ParseOk(JArr(<<>>), j + 1)
                   ELSE ParseItems(s, j, <<>>)
         [] c = "dq" -> ParseString(s, i)
         [] c \in Digits -> ParseOk(JNum(Slice(s, i, SkipDigits(s, i) - 1)), SkipDigits(s, i))
         [] c = "null" -> ParseOk(JNull, i + 1)
         [] OTHER -> ParseFail

\* The members of an object from the key at s[i] on; a repeated key keeps
\* its last value.
ParseMembers(s, i, acc) ==
    IF At(s, i) # "dq" THEN ParseFail
    ELSE LET k == ParseString(s, i)
         IN IF ~k.ok THEN ParseFail
            ELSE LET c == SkipWs(s, k.i)
                 IN IF At(s, c) # ":" THEN ParseFail
                    ELSE LET v == ParseValue(s, SkipWs(s, c + 1))
                         IN IF ~v.ok THEN ParseFail
                            ELSE LET e == SkipWs(s, v.i)
                                     acc2 == DictSet(acc, k.v.s, v.v)
                                 IN IF At(s, e) = ","
                                    THEN ParseMembers(s, SkipWs(s, e + 1), acc2)
                                    ELSE IF At(s, e) = "}"
                                    THEN ParseOk(JObj(acc2), e + 1)
                                    ELSE ParseFail

ParseItems(s, i, acc) ==
    LET v == ParseValue(s, i)
    IN IF ~v.ok THEN ParseFail
       ELSE LET e == SkipWs(s, v.i)
                acc2 == Append(acc, v.v)
            IN IF At(s, e) = ","
               THEN ParseItems(s, SkipWs(s, e + 1), acc2)
               ELSE IF At(s, e) = "]"
               THEN ParseOk(JArr(acc2), e + 1)
               ELSE ParseFail

\* json.loads(s): one value, with nothing but whitespace around it.
JsonLoads(s) ==
    LET r == ParseValue(s, SkipWs(s, 1))
    IN IF r.ok /\ SkipWs(s, r.i) > Len(s) THEN r ELSE ParseFail

IsContainer(v) == v.t \in {"obj", "arr"}

\* json.dumps(v), and json.dumps(v, indent=...) for the style "pretty".
RECURSIVE JsonDumps(_, _)
RECURSIVE DumpJoined(_, _, _)

DumpJoined(parts, sep, acc) ==
    IF parts = <<>> THEN acc
    ELSE DumpJoined(Tail(parts), sep,
                    IF acc = <<>> THEN Head(parts) ELSE acc \o sep \o Head(parts))

JsonDumps(v, style) ==
    LET sep == IF style = "pretty" THEN <<",", "nl", "sp">> ELSE <<",", "sp">>
        open == IF style = "pretty" THEN <<"nl", "sp">> ELSE <<>>
        close == IF style = "pretty" THEN <<"nl">> ELSE <<>>
    IN CASE v.t = "str" -> <<"dq">> \o v.s \o <<"dq">>
         [] v.t = "num" -> v.s
         [] v.t = "null" -> <<"null">>
         [] v.t = "obj" ->
                IF v.d = <<>> THEN <<"{", "}">>
                ELSE <<"{">> \o open
                     \o DumpJoined([i \in 1..Len(v.d) |->
                            <<"dq">> \o v.d[i][1] \o <<"dq", ":", "sp">>
                            \o JsonDumps(v.d[i][2], style)], sep, <<>>)
                     \o close \o <<"}">>
         [] v.t = "arr" ->
                IF v.a = <<>> THEN <<"[", "]">>
                ELSE <<"[">> \o open
                     \o DumpJoined([i \in 1..Len(v.a) |-> JsonDumps(v.a[i], style)], sep, <<>>)
                     \o close \o <<"]">>

(***************************************************************************)
(* gitre/generator.py: _extract_json and _validate_json_keys.              *)
(***************************************************************************)
_EXPECTED_SINGLE_KEYS == { <<"subject">>, <<"changelog_category">> }

\* A key test satisfied by one expected key alone.
HasAnyExpectedKey(obj) == \E k \in _EXPECTED_SINGLE_KEYS : DictHas(obj.d, k)

HasExpectedKeys(obj) == \A k \in _EXPECTED_SINGLE_KEYS : DictHas(obj.d, k)

\* A validation that accepts every parsed candidate.
_validate_nothing(data) == data.t \in {"arr", "obj"}

_validate_json_keys(data) ==
    IF data.t = "arr"
    THEN data.a # <<>> /\ data.a[1].t = "obj" /\ HasExpectedKeys(data.a[1])
    ELSE data.t = "obj" /\ HasExpectedKeys(data)

Extracted(v) == [status |-> "ok", value |-> v]
NotExtracted == [status |-> "pass", value |-> JNone]
ExtractError == [status |-> "error", value |-> JNone]

\* Strategy 1: json.loads of the whole text, kept when a dict or a list.
DirectParse(text) ==
    LET r == JsonLoads(text)
    IN IF r.ok /\ IsContainer(r.v) THEN Extracted(r.v) ELSE NotExtracted

\* Strategy 2, the pattern ```(?:json)?\s*\n?(.*?)``` from position i on:
\* the first fence that has a closing fence, its body, and where the match
\* ends.
FenceMatch(text, i) ==
    LET open == IndexFrom(text, "fence", i)
        body == SkipWs(text, IF At(text, open + 1) = "json" THEN open + 2 ELSE open + 1)
        close == IndexFrom(text, "fence", body)
    IN IF open = 0 \/ close = 0
       THEN [found |-> FALSE, body |-> <<>>, next |-> 0]
       ELSE [found |-> TRUE, body |-> Slice(text, body, close - 1), next |-> close + 1]

RECURSIVE FenceScan(_, _)
FenceScan(text, i) ==
    LET m == FenceMatch(text, i)
    IN IF ~m.found THEN NotExtracted
       ELSE LET r == JsonLoads(Strip(m.body))
            IN IF r.ok /\ IsContainer(r.v) THEN Extracted(r.v)
               ELSE FenceScan(text, m.next)

\* The index in candidate at which the depth of start_char/end_char first
\* returns to 0 at an end_char; 0 if it never does.
\* The loop "for i, ch in enumerate(candidate)" scanning from index i with the
\* given depth: the depth after index k is the depth before i, plus the
\* start_chars and minus the end_chars in i..k; the loop stops at the first
\* end_char that leaves it at 0.
DepthEnd(candidate, start_char, end_char, i, depth) ==
    LET DepthAfter(k) ==
            depth + Cardinality({j \in i..k : candidate[j] = start_char})
                  - Cardinality({j \in i..k : candidate[j] = end_char})
        Closes(k) == candidate[k] = end_char /\ DepthAfter(k) = 0
    IN IF \E k \in i..Len(candidate) : Closes(k)
       THEN CHOOSE k \in i..Len(candidate) : Closes(k) /\ \A j \in i..(k - 1) : ~Closes(j)
       ELSE 0

\* Strategy 3 for one bracket type: parse from its first occurrence; when
\* that raises, parse up to the matching closing character.  A result is
\* kept only if its keys validate.
BracketScan(text, start_char, end_char) ==
    LET idx == Find(text, start_char)
        candidate == Slice(text, idx, Len(text))
        whole == JsonLoads(candidate)
        e == DepthEnd(candidate, start_char, end_char, 1, 0)
        part == JsonLoads(Slice(candidate, 1, e))
    IN IF idx = 0 THEN NotExtracted
       ELSE IF whole.ok
       THEN IF IsContainer(whole.v) /\ _validate_json_keys(whole.v)
            THEN Extracted(whole.v) ELSE NotExtracted
       ELSE IF e # 0 /\ part.ok /\ IsContainer(part.v) /\ _validate_json_keys(part.v)
            THEN Extracted(part.v) ELSE NotExtracted

\* _SINGLE_JSON_RE.search(text): the first "{" followed, after any
\* whitespace, by the string "subject"; 0 if none.
RECURSIVE SingleJsonSearch(_, _)
SingleJsonSearch(text, i) ==
    IF i > Len(text) THEN 0
    ELSE IF text[i] = "{"
            /\ LET j == SkipWs(text, i + 1)
               IN At(text, j) = "dq" /\ At(text, j + 1) = "subject" /\ At(text, j + 2) = "dq"
    THEN i
    ELSE SingleJsonSearch(text, i + 1)

\* Strategy 4: the object at the first match of the shape pattern, kept when
\* it parses to a dict; its keys are not validated.
ShapeScan(text) ==
    LET start == SingleJsonSearch(text, 1)
        candidate == Slice(text, start, Len(text))
        whole == JsonLoads(candidate)
        e == DepthEnd(candidate, "{", "}", 1, 0)
        part == JsonLoads(Slice(candidate, 1, e))
    IN IF start = 0 THEN NotExtracted
       ELSE IF whole.ok
       THEN IF whole.v.t = "obj" THEN Extracted(whole.v) ELSE NotExtracted
       ELSE IF e # 0 /\ part.ok /\ part.v.t = "obj"
            THEN Extracted(part.v) ELSE NotExtracted

_extract_json(raw) ==
    LET text == Strip(raw)
    IN IF DirectParse(text).status = "ok" THEN DirectParse(text)
       ELSE IF FenceScan(text, 1).status = "ok" THEN FenceScan(text, 1)
       ELSE IF BracketScan(text, "[", "]").status = "ok" THEN BracketScan(text, "[", "]")
       ELSE IF BracketScan(text, "{", "}").status = "ok" THEN BracketScan(text, "{", "}")
       ELSE IF ShapeScan(text).status = "ok" THEN ShapeScan(text)
       ELSE ExtractError

(***************************************************************************)
(* The texts handed to _extract_json: JSON written by json.dumps, possibly *)
(* inside a Markdown fence, with prose before and after it.                *)
(***************************************************************************)
Member(k, v) == <<k, v>>

Valid1 ==
    JObj(<<Member(<<"subject">>, JStr(<<"x">>)),
           Member(<<"changelog_category">>, JStr(<<"Fixed">>))>>)
Valid2 ==
    JObj(<<Member(<<"subject">>, JStr(<<"y">>)),
           Member(<<"body">>, JNull),
           Member(<<"changelog_category">>, JStr(<<"Added">>))>>)
\* A valid object whose subject holds a closing bracket.
ValidBracket ==
    JObj(<<Member(<<"subject">>, JStr(<<"x", "]">>)),
           Member(<<"changelog_category">>, JStr(<<"Fixed">>))>>)
LacksBoth == JObj(<<Member(<<"x">>, JStr(<<"y">>))>>)
SubjectOnly == JObj(<<Member(<<"subject">>, JStr(<<"x">>))>>)
SubjectLate ==
    JObj(<<Member(<<"body">>, JStr(<<"x">>)), Member(<<"subject">>, JStr(<<"y">>))>>)
CategoryOnly == JObj(<<Member(<<"changelog_category">>, JStr(<<"Fixed">>))>>)

ValidObjects == {Valid1, Valid2, ValidBracket}
WrongObjects == {LacksBoth, SubjectOnly, SubjectLate, CategoryOnly}
Elements == ValidObjects \cup WrongObjects \cup {JStr(<<"x">>)}

RECURSIVE ElementSeqs(_)
ElementSeqs(n) ==
    IF n = 0 THEN {<<>>}
    ELSE ElementSeqs(n - 1)
         \cup {Append(q, e) : q \in {r \in ElementSeqs(n - 1) : Len(r) = n - 1},
                              e \in Elements}

JsonInputs ==
    ValidObjects \cup WrongObjects \cup {JArr(q) : q \in ElementSeqs(MaxArrayLen)}

ProseBefore ==
    { <<>>, <<"p", "sp">>, <<"p", "sp", "[", "1", "]", "sp">>,
      <<"p", "sp", "{", "p", "}", "nl">> }
ProseAfter == { <<>>, <<"sp", "p">>, <<"nl", "[", "p", "]">> }
Fences == {"none", "bare", "json", "py"}

Fenced(fence, body) ==
    CASE fence = "none" -> body
      [] fence = "bare" -> <<"fence", "nl">> \o body \o <<"nl", "fence">>
      [] fence = "json" -> <<"fence", "json", "nl">> \o body \o <<"nl", "fence">>
      [] fence = "py" -> <<"fence", "py", "nl">> \o body \o <<"nl", "fence">>

ResponseText(in) == in.pre \o Fenced(in.fence, JsonDumps(in.json, in.style)) \o in.post

(***************************************************************************)
(* rewrite_history, one action per step.                                   *)
(***************************************************************************)
Ev(step, phase) == <<step, phase>>

\* A failure that is swallowed: the run goes on to its return.
RaiseSwallowed(err) == pc' = "return" /\ UNCHANGED outcome

\* What a failed step leaves behind: the error, and nothing more to run.
Raise(err) == pc' = "raised" /\ outcome' = err

\* The statement order with the backup left out.
StepAfterWithoutBackup(p) ==
    CASE p = "check" -> "build"
      [] p = "backup" -> "build"
      [] p = "build" -> "save"
      [] p = "save" -> "write"
      [] p = "write" -> "filter"
      [] p = "restore" -> "return"

\* The statement order of rewrite_history: where control goes when the step
\* at p has succeeded.
StepAfter(p) ==
    CASE p = "check" -> "backup"
      [] p = "backup" -> "build"
      [] p = "build" -> "save"
      [] p = "save" -> "write"
      [] p = "write" -> "filter"
      [] p = "restore" -> "return"

\* Step 1: if not check_filter_repo(): raise RuntimeError(...).
CheckTool ==
    /\ pc = "check"
    /\ \E available \in BOOLEAN, system \in Systems :
        IF available
        THEN /\ pc' = StepAfter("check")
             /\ steps' = steps \o <<Ev("check", "start"), Ev("check", "ok")>>
             /\ UNCHANGED outcome
        ELSE /\ Raise(NotInstalledError(system))
             /\ steps' = steps \o <<Ev("check", "start"), Ev("check", "fail")>>
    /\ UNCHANGED <<repo, repo0, now, messages, backup_branch, hash_map, results,
                   remotes, callback_file, filter_calls, cursor, stream, restore_idx>>
    /\ UNCHANGED <<push_vars, ex_vars, lib_vars>>

\* Step 2: backup_branch = create_backup(repo_path).
CreateBackup ==
    /\ pc = "backup"
    /\ \E git_ok \in BOOLEAN :
        LET res == create_backup(repo, now, git_ok)
        IN IF res.ok
           THEN /\ repo' = res.repo
                /\ backup_branch' = res.name
                /\ pc' = StepAfter("backup")
                /\ steps' = steps \o <<Ev("backup", "start"), Ev("backup", "ok")>>
                /\ UNCHANGED outcome
           ELSE /\ Raise(CalledProcessError("git branch"))
                /\ steps' = steps \o <<Ev("backup", "start"), Ev("backup", "fail")>>
                /\ UNCHANGED <<repo, backup_branch>>
    /\ UNCHANGED <<repo0, now, messages, hash_map, results, remotes, callback_file,
                   filter_calls, cursor, stream, restore_idx>>
    /\ UNCHANGED <<push_vars, ex_vars, lib_vars>>

\* Step 3: the loop over messages that fills hash_map and results.
BuildMapping ==
    /\ pc = "build"
    /\ hash_map' = BuildHashMap(messages, <<>>)
    /\ results' = BuildResults(messages, <<>>)
    /\ pc' = StepAfter("build")
    /\ UNCHANGED <<repo, repo0, now, messages, backup_branch, remotes, callback_file,
                   filter_calls, cursor, stream, restore_idx, outcome, steps>>
    /\ UNCHANGED <<push_vars, ex_vars, lib_vars>>

\* Step 4: remotes = save_remotes(repo_path); git remote -v runs with check=True.
SaveRemotes ==
    /\ pc = "save"
    /\ \E git_ok \in BOOLEAN :
        IF git_ok
        THEN /\ remotes' = save_remotes(repo)
             /\ pc' = StepAfter("save")
             /\ steps' = steps \o <<Ev("save", "start"), Ev("save", "ok")>>
             /\ UNCHANGED outcome
        ELSE /\ Raise(CalledProcessError("git remote -v"))
             /\ steps' = steps \o <<Ev("save", "start"), Ev("save", "fail")>>
             /\ UNCHANGED remotes
    /\ UNCHANGED <<repo, repo0, now, messages, backup_branch, hash_map, results,
                   callback_file, filter_calls, cursor, stream, restore_idx>>
    /\ UNCHANGED <<push_vars, ex_vars, lib_vars>>

\* Steps 5 and 6a: the script is built and written to the temporary file.
WriteCallback ==
    /\ pc = "write"
    /\ callback_file' = [exists |-> TRUE, script |-> _build_commit_callback(hash_map)]
    /\ pc' = StepAfter("write")
    /\ UNCHANGED <<repo, repo0, now, messages, backup_branch, hash_map, results,
                   remotes, filter_calls, cursor, stream, restore_idx, outcome, steps>>
    /\ UNCHANGED <<push_vars, ex_vars, lib_vars>>

\* Step 6b: git filter-repo --force --commit-callback <file> is started.
FilterStart ==
    /\ pc = "filter"
    /\ filter_calls' = filter_calls + 1
    /\ cursor' = 1
    /\ stream' = <<>>
    /\ pc' = "pass"
    /\ steps' = Append(steps, Ev("filter", "start"))
    /\ UNCHANGED <<repo, repo0, now, messages, backup_branch, hash_map, results,
                   remotes, callback_file, restore_idx, outcome>>
    /\ UNCHANGED <<push_vars, ex_vars, lib_vars>>

\* The id of a commit once the pass has written it: a commit whose message
\* or whose parent changed gets a new id.
RewrittenId(old, new_message, parent_changed) ==
    IF new_message # old.message \/ parent_changed THEN <<"r">> \o old.id ELSE old.id

\* filter-repo hands one commit to the callback read from the file.
FilterCommit ==
    /\ pc = "pass"
    /\ cursor <= Len(repo.commits)
    /\ LET old == repo.commits[cursor]
           seen == [original_id |-> old.id, message |-> old.message, author |-> old.author]
           done == RunCallback(callback_file.script, seen)
           parent_changed == cursor > 1 /\ stream[cursor - 1].id # repo.commits[cursor - 1].id
       IN stream' = Append(stream,
                       [id |-> RewrittenId(old, done.message, parent_changed),
                        message |-> done.message,
                        author |-> done.author])
    /\ cursor' = cursor + 1
    /\ UNCHANGED <<pc, repo, repo0, now, messages, backup_branch, hash_map, results,
                   remotes, callback_file, filter_calls, restore_idx, outcome, steps>>
    /\ UNCHANGED <<push_vars, ex_vars, lib_vars>>

\* filter-repo exits 0: the history is replaced, the current branch follows
\* it, the remotes and the upstream tracking are stripped; then the finally
\* clause removes the callback file.
FilterFinish ==
    /\ pc = "pass"
    /\ cursor > Len(repo.commits)
    /\ repo' = [repo EXCEPT
                  !.commits = stream,
                  !.branches = DictSet(@, repo.current, stream[Len(stream)].id),
                  !.remotes = <<>>,
                  !.upstream = NoUpstream]
    /\ callback_file' = NoFile
    /\ steps' = Append(steps, Ev("filter", "ok"))
    /\ pc' = IF remotes # <<>> THEN "restore" ELSE "return"
    /\ UNCHANGED <<repo0, now, messages, backup_branch, hash_map, results, remotes,
                   filter_calls, cursor, stream, restore_idx, outcome>>
    /\ UNCHANGED <<push_vars, ex_vars, lib_vars>>

\* A failure of filter-repo that leaves the callback file behind.
FilterFailKeepingFile ==
    /\ pc = "pass"
    /\ steps' = Append(steps, Ev("filter", "fail"))
    /\ Raise(CalledProcessError("git filter-repo"))
    /\ UNCHANGED <<repo, repo0, now, messages, backup_branch, hash_map, results,
                   remotes, callback_file, filter_calls, cursor, stream, restore_idx>>
    /\ UNCHANGED <<push_vars, ex_vars, lib_vars>>

\* filter-repo exits non-zero, at any point of the pass: nothing of the pass
\* reaches the repository; the finally clause removes the callback file and
\* CalledProcessError propagates.
FilterFail ==
    /\ pc = "pass"
    /\ callback_file' = NoFile
    /\ steps' = Append(steps, Ev("filter", "fail"))
    /\ Raise(CalledProcessError("git filter-repo"))
    /\ UNCHANGED <<repo, repo0, now, messages, backup_branch, hash_map, results,
                   remotes, filter_calls, cursor, stream, restore_idx>>
    /\ UNCHANGED <<push_vars, ex_vars, lib_vars>>

\* Step 7, restore_remotes: one git remote add per saved remote, check=True.
RestoreAdd ==
    /\ pc = "restore"
    /\ restore_idx <= Len(remotes)
    /\ \E git_ok \in BOOLEAN :
        LET res == RemoteAdd(repo, remotes[restore_idx][1], remotes[restore_idx][2], git_ok)
            started == IF restore_idx = 1 THEN <<Ev("restore", "start")>> ELSE <<>>
        IN IF res.ok
           THEN /\ repo' = res.repo
                /\ restore_idx' = restore_idx + 1
                /\ steps' = steps \o started
                /\ UNCHANGED <<pc, outcome>>
           ELSE /\ Raise(CalledProcessError("git remote add"))
                /\ steps' = steps \o started \o <<Ev("restore", "fail")>>
                /\ UNCHANGED <<repo, restore_idx>>
    /\ UNCHANGED <<repo0, now, messages, backup_branch, hash_map, results, remotes,
                   callback_file, filter_calls, cursor, stream>>
    /\ UNCHANGED <<push_vars, ex_vars, lib_vars>>

\* restore_remotes, after the loop: the upstream of the current branch is
\* set again when "origin" was saved; that command's failure is ignored.
RestoreTracking ==
    /\ pc = "restore"
    /\ restore_idx > Len(remotes)
    /\ \E git_ok \in BOOLEAN :
        repo' = IF git_ok /\ DictHas(remotes, Origin)
                THEN [repo EXCEPT !.upstream =
                        [set |-> TRUE, remote |-> Origin, branch |-> repo.current]]
                ELSE repo
    /\ steps' = Append(steps, Ev("restore", "ok"))
    /\ pc' = StepAfter("restore")
    /\ UNCHANGED <<repo0, now, messages, backup_branch, hash_map, results, remotes,
                   callback_file, filter_calls, cursor, stream, restore_idx, outcome>>
    /\ UNCHANGED <<push_vars, ex_vars, lib_vars>>

\* return results
Return ==
    /\ pc = "return"
    /\ pc' = "returned"
    /\ outcome' = [kind |-> "returned", text |-> <<>>, value |-> results]
    /\ steps' = Append(steps, Ev("return", "ok"))
    /\ UNCHANGED <<repo, repo0, now, messages, backup_branch, hash_map, results,
                   remotes, callback_file, filter_calls, cursor, stream, restore_idx>>
    /\ UNCHANGED <<push_vars, ex_vars, lib_vars>>

\* force_push, called once rewrite_history has ended; the push itself runs
\* with check=True.
ForcePush ==
    /\ pc \in {"returned", "raised"}
    /\ push_outcome.kind = "none"
    /\ LET fp == force_push(repo)
       IN IF fp.push
          THEN /\ push_log' = push_log \o fp.cmd
               /\ \E git_ok \in BOOLEAN :
                    push_outcome' = IF git_ok
                                    THEN [kind |-> "returned", text |-> <<>>, value |-> <<>>]
                                    ELSE CalledProcessError("git push")
          ELSE /\ push_outcome' = fp.error
               /\ UNCHANGED push_log
    /\ UNCHANGED <<rw_vars, ex_vars, lib_vars>>

(***************************************************************************)
(* gitre/models.py and gitre/generator.py: _parse_single_response.         *)
(* A subject is a sequence of characters, one token each.                  *)
(***************************************************************************)
CHANGELOG_CATEGORIES ==
    { <<"Added">>, <<"Changed">>, <<"Fixed">>, <<"Removed">>, <<"Deprecated">>,
      <<"Security">> }

SubjectMaxLength == 72
SubjectLimit == 72
SubjectKept == 69
Ellipsis == <<".", ".", ".">>

\* str(v) of a JSON scalar.
PyStr(v) ==
    CASE v.t = "str" -> v.s
      [] v.t = "num" -> v.s
      [] v.t = "null" -> <<"N", "o", "n", "e">>

\* raw.get(key, default)
RawGet(raw, key, default) == IF DictHas(raw.d, key) THEN DictGet(raw.d, key) ELSE default

\* The subject cut two characters too early.
TruncateSubjectEarly(subject) ==
    IF Len(subject) > SubjectLimit
    THEN Slice(subject, 1, SubjectKept - 2) \o Ellipsis
    ELSE subject

TruncateSubject(subject) ==
    IF Len(subject) > SubjectLimit
    THEN Slice(subject, 1, SubjectKept) \o Ellipsis
    ELSE subject

NoMessage ==
    [hash |-> <<>>, short_hash |-> <<>>, subject |-> <<>>, body |-> NoBody,
     changelog_category |-> <<>>, changelog_entry |-> <<>>]

\* GeneratedMessage(...): the field validators of the model.
GeneratedMessage(fields) ==
    IF Len(fields.subject) > SubjectMaxLength
       \/ fields.changelog_category \notin CHANGELOG_CATEGORIES
    THEN [status |-> "ValidationError", msg |-> NoMessage]
    ELSE [status |-> "ok", msg |-> fields]

_parse_single_response(raw, commit) ==
    LET subject == TruncateSubject(PyStr(RawGet(raw, <<"subject">>, JStr(<<>>))))
        raw_body == RawGet(raw, <<"body">>, JNull)
        body == IF raw_body.t # "null" THEN Body(PyStr(raw_body)) ELSE NoBody
        changelog_category == PyStr(RawGet(raw, <<"changelog_category">>, JStr(<<"Changed">>)))
        changelog_entry == PyStr(RawGet(raw, <<"changelog_entry">>, JStr(<<>>)))
    IN GeneratedMessage([hash |-> commit.hash,
                         short_hash |-> commit.short_hash,
                         subject |-> subject,
                         body |-> body,
                         changelog_category |-> changelog_category,
                         changelog_entry |-> changelog_entry])

(***************************************************************************)
(* The raw response objects handed to _parse_single_response.              *)
(***************************************************************************)
MaxRawSubject == 75

SubjectChar(i) == <<"a", "b", "c">>[(i % 3) + 1]
RawSubject(n) == [i \in 1..n |-> SubjectChar(i)]

\* A field of a raw object: absent, or present with a value.
RECURSIVE RawObject(_)
RawObject(fields) ==
    IF fields = <<>> THEN <<>>
    ELSE (IF Head(fields)[2].t = "none" THEN <<>> ELSE <<Head(fields)>>)
         \o RawObject(Tail(fields))

RawSubjects == {JNone, JNull} \cup {JStr(RawSubject(n)) : n \in 0..MaxRawSubject}
RawBodies == {JNone, JNull, JStr(<<"b">>)}
RawCategories ==
    {JNone, JNull, JStr(<<"Bugfix">>), JStr(<<"fixed">>)}
    \cup {JStr(c) : c \in CHANGELOG_CATEGORIES}

RawResponses ==
    { JObj(RawObject(<<Member(<<"subject">>, s), Member(<<"body">>, b),
                       Member(<<"changelog_category">>, c),
                       Member(<<"changelog_entry">>, JStr(<<"e">>))>>)) :
        s \in RawSubjects, b \in RawBodies, c \in RawCategories }

CommitOf(i) == [hash |-> FullHash(i), short_hash |-> ShortHash(i)]

NoParseOut == [status |-> "idle", msg |-> NoMessage]

ParseIdle ==
    /\ ps_raw = JNone
    /\ ps_commit = CommitOf(1)
    /\ ps_out = NoParseOut

(***************************************************************************)
(* gitre/generator.py: generate_message and generate_messages_batch.       *)
(***************************************************************************)
Failed(kind) == [status |-> kind, msg |-> NoMessage]

\* generate_message after _extract_json: the first element of a list, then
\* _parse_single_response.
MessageFromExtracted(e, commit) ==
    IF e.status # "ok" THEN Failed("ValueError")
    ELSE IF e.value.t = "arr" /\ e.value.a = <<>> THEN Failed("RuntimeError")
    ELSE IF (IF e.value.t = "arr" THEN e.value.a[1] ELSE e.value).t # "obj"
    THEN Failed("AttributeError")
    ELSE _parse_single_response(IF e.value.t = "arr" THEN e.value.a[1] ELSE e.value, commit)

\* generate_message from the text _call_claude returned on.
generate_message(text, commit) ==
    IF Strip(text) = <<>> THEN Failed("RuntimeError")
    ELSE MessageFromExtracted(_extract_json(text), commit)

\* generate_messages_batch after _extract_json: one object is wrapped in a
\* list.
ArrayFromExtracted(e) ==
    IF e.status # "ok" THEN [status |-> "ValueError", raw |-> <<>>]
    ELSE IF e.value.t = "obj" THEN [status |-> "ok", raw |-> <<e.value>>]
    ELSE [status |-> "ok", raw |-> e.value.a]

\* generate_messages_batch from the batch text up to the loop: the response
\* array, or the error raised.
BatchArray(text) ==
    IF Strip(text) = <<>> THEN [status |-> "RuntimeError", raw |-> <<>>]
    ELSE ArrayFromExtracted(_extract_json(text))

(***************************************************************************)
(* The commits and the responses of generate_messages_batch.               *)
(***************************************************************************)
MaxBatch == 3

BadCategory ==
    JObj(<<Member(<<"subject">>, JStr(<<"z">>)),
           Member(<<"changelog_category">>, JStr(<<"Bugfix">>))>>)

BatchElements == {Valid1, Valid2, BadCategory, JStr(<<"x">>)}

RECURSIVE BatchElementSeqs(_)
BatchElementSeqs(n) ==
    IF n = 0 THEN {<<>>}
    ELSE BatchElementSeqs(n - 1)
         \cup {Append(q, e) : q \in {r \in BatchElementSeqs(n - 1) : Len(r) = n - 1},
                              e \in BatchElements}

\* What the batch call may answer for n commits: nothing, prose, one object,
\* or an array shorter than, as long as or longer than n, bare or after prose.
BatchTexts(n) ==
    { <<>>, <<"p">>, JsonDumps(Valid1, "plain") }
    \cup { pre \o JsonDumps(JArr(q), "plain") :
             pre \in { <<>>, <<"p", "sp", "[", "1", "]", "sp">> },
             q \in BatchElementSeqs(n + 1) }

\* What a single call may answer.
SingleTexts ==
    { <<>>, <<"p">>,
      JsonDumps(Valid2, "plain"),
      JsonDumps(BadCategory, "plain"),
      JsonDumps(JArr(<<Valid1, Valid2>>), "plain"),
      JsonDumps(JArr(<<>>), "plain"),
      JsonDumps(JArr(<<JStr(<<"x">>)>>), "plain") }

NoBatchOut == [kind |-> "none"]

BatchIdle ==
    /\ bt_pc = "idle"
    /\ bt_commits = <<>>
    /\ bt_raw = <<>>
    /\ bt_idx = 1
    /\ bt_messages = <<>>
    /\ bt_calls = <<>>
    /\ bt_out = NoBatchOut

(***************************************************************************)
(* gitre/analyzer.py: truncate_diff.                                       *)
(***************************************************************************)
TruncationMarker == <<"nl", "[diff truncated]">>

truncate_diff(diff_patch, max_bytes) ==
    LET encoded == EncodeUtf8(diff_patch)
    IN IF Len(encoded) <= max_bytes THEN diff_patch
       ELSE DecodeUtf8Replace(Slice(encoded, 1, max_bytes)) \o TruncationMarker

(***************************************************************************)
(* The texts and limits handed to truncate_diff.                           *)
(***************************************************************************)
MaxDiffLen == 3
MaxDiffBytes == 4

DiffChars == {"a", "nl", "E2", "E3"}

RECURSIVE DiffTexts(_)
DiffTexts(n) ==
    IF n = 0 THEN {<<>>}
    ELSE DiffTexts(n - 1)
         \cup {Append(q, c) : q \in {r \in DiffTexts(n - 1) : Len(r) = n - 1},
                              c \in DiffChars}

NoTruncOut == [done |-> FALSE, text |-> <<>>]

TruncIdle ==
    /\ td_text = <<>>
    /\ td_max = 0
    /\ td_out = [done |-> TRUE, text |-> <<>>]

(***************************************************************************)
(* gitre/analyzer.py: get_diff and _parse_numstat.  A commit is its hash,  *)
(* the hashes of its parents and the files it changes, each with the added *)
(* and deleted line counts git diff --numstat prints ("-" for a binary).   *)
(***************************************************************************)
_EMPTY_TREE_SHA == <<"4b825dc642cb6eb9a060e54bf8d69288fbee4904">>

\* git rev-parse <hash>^@: one parent hash per line.
RevParseParents(commit) ==
    Concat([i \in 1..Len(commit.parents) |-> commit.parents[i] \o <<"nl">>])

\* [p for p in stdout.strip().splitlines() if p.strip()]
RECURSIVE NonBlank(_)
NonBlank(lines) ==
    IF lines = <<>> THEN <<>>
    ELSE (IF Strip(Head(lines)) # <<>> THEN <<Head(lines)>> ELSE <<>>)
         \o NonBlank(Tail(lines))

ParentsOf(commit) == NonBlank(SplitLines(Strip(RevParseParents(commit))))

\* A commit counts as a merge only with more than two parents.
MergeCommitOctopus(parents) == Len(parents) > 2

MergeCommit(parents) == Len(parents) > 1

DiffBase(parents) == IF parents # <<>> THEN Strip(parents[1]) ELSE _EMPTY_TREE_SHA

MergeNote(commit_hash) ==
    <<"[merge commit ">> \o Slice(commit_hash, 1, IF Len(commit_hash) < 10 THEN Len(commit_hash) ELSE 10)
    \o <<" - diff omitted]">>

RevParseCmd(commit_hash) == <<"rev-parse", commit_hash, "^@">>
DiffCmd(mode, base, commit_hash) == <<"diff", mode, base, commit_hash>>

\* What git diff prints for a base and a commit, in the given mode.
DiffOutput(mode, base, commit_hash) ==
    <<"sp">> \o <<mode>> \o base \o <<"..">> \o commit_hash \o <<"nl">>

\* get_diff: the commands it runs and the (diff_stat, diff_patch) it returns.
get_diff(commit) ==
    LET parents == ParentsOf(commit)
        base == DiffBase(parents)
    IN IF MergeCommit(parents)
       THEN [cmds |-> <<RevParseCmd(commit.hash)>>,
             diff_stat |-> MergeNote(commit.hash),
             diff_patch |-> MergeNote(commit.hash)]
       ELSE [cmds |-> <<RevParseCmd(commit.hash),
                        DiffCmd("--stat", base, commit.hash),
                        DiffCmd("--patch", base, commit.hash)>>,
             diff_stat |-> Strip(DiffOutput("--stat", base, commit.hash)),
             diff_patch |-> DiffOutput("--patch", base, commit.hash)]

\* git diff --numstat: "<added> TAB <deleted> TAB <file name>" per file.
NumstatOutput(files) ==
    Concat([i \in 1..Len(files) |->
              files[i].added \o <<"tab">> \o files[i].deleted \o <<"tab">>
              \o files[i].name \o <<"nl">>])

DigitValue(c) ==
    CASE c = "0" -> 0 [] c = "1" -> 1 [] c = "2" -> 2 [] c = "3" -> 3 [] c = "4" -> 4
      [] c = "5" -> 5 [] c = "6" -> 6 [] c = "7" -> 7 [] c = "8" -> 8 [] c = "9" -> 9

\* int(s) of a string of decimal digits.
RECURSIVE PyInt(_)
PyInt(s) == IF s = <<>> THEN 0 ELSE 10 * PyInt(SubSeq(s, 1, Len(s) - 1)) + DigitValue(s[Len(s)])

\* line.split("\t", maxsplit=2)
SplitTabs2(line) ==
    LET a == Find(line, "tab")
        b == IndexFrom(line, "tab", a + 1)
    IN IF a = 0 THEN <<line>>
       ELSE IF b = 0 THEN <<Slice(line, 1, a - 1), Slice(line, a + 1, Len(line))>>
       ELSE <<Slice(line, 1, a - 1), Slice(line, a + 1, b - 1), Slice(line, b + 1, Len(line))>>

RECURSIVE NumstatTotals(_, _)
NumstatTotals(lines, acc) ==
    IF lines = <<>> THEN acc
    ELSE LET line == Head(lines)
             parts == SplitTabs2(line)
         IN IF Strip(line) = <<>> \/ Len(parts) < 3
            THEN NumstatTotals(Tail(lines), acc)
            ELSE NumstatTotals(Tail(lines),
                    <<acc[1] + 1,
                      acc[2] + (IF parts[1] # <<"-">> THEN PyInt(parts[1]) ELSE 0),
                      acc[3] + (IF parts[2] # <<"-">> THEN PyInt(parts[2]) ELSE 0)>>)

\* _parse_numstat: the commands it runs and the totals it returns.
_parse_numstat(commit) ==
    LET parents == ParentsOf(commit)
        base == DiffBase(parents)
    IN IF MergeCommit(parents)
       THEN [cmds |-> <<RevParseCmd(commit.hash)>>, totals |-> <<0, 0, 0>>]
       ELSE [cmds |-> <<RevParseCmd(commit.hash), DiffCmd("--numstat", base, commit.hash)>>,
             totals |-> NumstatTotals(SplitLines(Strip(NumstatOutput(commit.files))),
                                      <<0, 0, 0>>)]

(***************************************************************************)
(* The commits handed to get_diff and _parse_numstat.                      *)
(***************************************************************************)
MaxParents == 3
MaxFiles == 2

ChangedFiles ==
    { [name |-> <<"f">>, added |-> <<"1", "2">>, deleted |-> <<"3">>],
      [name |-> <<"g", "tab", "h">>, added |-> <<"0">>, deleted |-> <<"5">>],
      [name |-> <<"b">>, added |-> <<"-">>, deleted |-> <<"-">>] }

RECURSIVE FileSeqs(_)
FileSeqs(n) ==
    IF n = 0 THEN {<<>>}
    ELSE FileSeqs(n - 1)
         \cup {Append(q, f) : q \in {r \in FileSeqs(n - 1) : Len(r) = n - 1},
                              f \in ChangedFiles}

DiffCommits ==
    { [hash |-> <<"c", "0", "f", "f", "e", "e", "1", "2", "3", "4", "5", "6">>,
       parents |-> [i \in 1..n |-> <<"p", DigitChar[i]>>],
       files |-> fs] : n \in 0..MaxParents, fs \in FileSeqs(MaxFiles) }

NoCommit == [hash |-> <<>>, parents |-> <<>>, files |-> <<>>]
NoDiffOut == [done |-> FALSE, diff_stat |-> <<>>, diff_patch |-> <<>>]
NoNumstatOut == [done |-> FALSE, totals |-> <<0, 0, 0>>]

DiffIdle ==
    /\ gd_commit = NoCommit
    /\ gd_cmds = <<>>
    /\ gd_out = NoDiffOut
    /\ ns_cmds = <<>>
    /\ ns_out = NoNumstatOut

(***************************************************************************)
(* gitre/cache.py: validate_cache, and gitre/cli.py: the commit command.   *)
(* The live HEAD is what git rev-parse HEAD gives: a hash, or a failure.   *)
(***************************************************************************)
\* s[:n]
PyPrefix(s, n) == Slice(s, 1, IF Len(s) < n THEN Len(s) ELSE n)

\* git rev-parse HEAD with text=True: the hash and a newline.
RevParseHead(live) == live.hash \o <<"nl">>

\* A HEAD that cannot be read counts as matching the cache.
validate_cache_trusting(live, result) ==
    IF ~live.ok
    THEN [is_valid |-> TRUE, warning |-> <<>>]
    ELSE LET current_head == Strip(RevParseHead(live))
         IN IF current_head = result.head_hash
            THEN [is_valid |-> TRUE, warning |-> <<>>]
            ELSE [is_valid |-> FALSE,
                  warning |-> <<"Cache is stale: cached HEAD ">>
                              \o PyPrefix(result.head_hash, 8)
                              \o <<" does not match current HEAD ">>
                              \o PyPrefix(current_head, 8) \o <<".">>]

validate_cache(live, result) ==
    IF ~live.ok
    THEN [is_valid |-> FALSE,
          warning |-> <<"Unable to determine current HEAD: ", live.error>>]
    ELSE LET current_head == Strip(RevParseHead(live))
         IN IF current_head = result.head_hash
            THEN [is_valid |-> TRUE, warning |-> <<>>]
            ELSE [is_valid |-> FALSE,
                  warning |-> <<"Cache is stale: cached HEAD ">>
                              \o PyPrefix(result.head_hash, 8)
                              \o <<" does not match current HEAD ">>
                              \o PyPrefix(current_head, 8) \o <<".">>]

\* s.split(",")
RECURSIVE SplitCommas(_)
SplitCommas(s) ==
    LET i == Find(s, ",")
    IN IF i = 0 THEN <<s>>
       ELSE <<Slice(s, 1, i - 1)>> \o SplitCommas(Slice(s, i + 1, Len(s)))

\* {h.strip() for h in option.split(",") if h.strip()}
OptionSet(text) == {Strip(h) : h \in Range(SplitCommas(text))} \ {<<>>}

\* "if only:" : the option was given and is not the empty string.
OptionGiven(opt) == opt.some /\ opt.text # <<>>

FilterOnly(msgs, only) ==
    IF OptionGiven(only)
    THEN SelectSeq(msgs, LAMBDA msg : msg.short_hash \in OptionSet(only.text))
    ELSE msgs

\* A --skip that removes nothing.
FilterSkipNothing(msgs, skip) == msgs

FilterSkip(msgs, skip) ==
    IF OptionGiven(skip)
    THEN SelectSeq(msgs, LAMBDA msg : msg.short_hash \notin OptionSet(skip.text))
    ELSE msgs

NoFlow == [called |-> FALSE, messages |-> <<>>]

CommitExit(code, err) == [pc |-> "exit", code |-> code, err |-> err, flow |-> NoFlow]

\* The commit command, up to its call of _run_commit_flow.
commit(in) ==
    IF ~in.repo_ok
    THEN CommitExit(1, << <<"Error: not a git repository">> >>)
    ELSE IF in.cache = "missing"
    THEN CommitExit(1, << <<"Error: no cached analysis found. Run 'gitre analyze' first.">> >>)
    ELSE IF in.cache = "invalid"
    THEN CommitExit(1, << <<"Error loading cached analysis: ">> >>)
    ELSE LET v == validate_cache(in.live, in.result)
             err == IF ~v.is_valid THEN << <<"Warning: ">> \o v.warning >> ELSE <<>>
             msgs == FilterSkip(FilterOnly(in.result.messages, in.only), in.skip)
         IN IF msgs = <<>>
            THEN CommitExit(0, err)
            ELSE [pc |-> "flow", code |-> 0, err |-> err,
                  flow |-> [called |-> TRUE, messages |-> msgs]]

(***************************************************************************)
(* The runs of gitre commit.                                               *)
(***************************************************************************)
MaxCached == 2

LiveHeads ==
    {[ok |-> TRUE, hash |-> FullHash(i), error |-> ""] : i \in 1..2}
    \cup {[ok |-> FALSE, hash |-> <<>>, error |-> e] :
            e \in {"CalledProcessError", "FileNotFoundError"}}

CachedResults ==
    {[head_hash |-> FullHash(i), messages |-> [k \in 1..n |-> CommitOf(k)]] :
        i \in 1..2, n \in 0..MaxCached}

NoOption == [some |-> FALSE, text |-> <<>>]
Option(text) == [some |-> TRUE, text |-> text]

OnlyOptions ==
    {NoOption, Option(<<>>), Option(<<"1">>), Option(<<"1", ",", "sp", "2">>),
     Option(<<"9">>)}

SkipOptions == {NoOption, Option(<<"1">>), Option(<<"2", ",", "1", ",">>)}

CommitInputs ==
    [repo_ok : BOOLEAN, cache : {"ok", "missing", "invalid"}, result : CachedResults,
     live : LiveHeads, only : OnlyOptions, skip : SkipOptions]

NoCommitInput ==
    [repo_ok |-> FALSE, cache |-> "missing",
     result |-> [head_hash |-> <<>>, messages |-> <<>>],
     live |-> [ok |-> FALSE, hash |-> <<>>, error |-> ""],
     only |-> NoOption, skip |-> NoOption]

CommitIdle ==
    /\ cm_in = NoCommitInput
    /\ cm_pc = "idle"
    /\ cm_code = 0
    /\ cm_err = <<>>
    /\ cm_flow = NoFlow

(***************************************************************************)
(* gitre/rewriter.py: create_backup called again and again on one          *)
(* repository.  The clock counts ticks, several to the second.             *)
(***************************************************************************)
TicksPerSecond == 2
MaxClock == 4
MaxBackupCalls == 3

\* datetime.now(tz=UTC).strftime("%Y%m%dT%H%M%SZ"): the whole seconds of the time.
Timestamp(clock) == clock \div TicksPerSecond

BackupIdle ==
    /\ bk_repo = InitialRepo("distinct", <<>>, FALSE)
    /\ bk_clock = 0
    /\ bk_log = <<>>

(***************************************************************************)
(* gitre/cli.py: _run_commit_flow, the flow shared by gitre commit and     *)
(* gitre analyze --live.  Its steps are calls into rewriter and formatter; *)
(* each is modelled by its outcome.                                        *)
(***************************************************************************)
MaxFlowMessages == 2

\* if x: of a str | None argument; None is written "None".
Truthy(x) == x \notin {"None", ""}

\* messages = list(filtered_messages) if filtered_messages is not None
\*            else list(result.messages)
FlowMessages(in) == IF in.filtered_given THEN in.filtered ELSE in.result_messages

\* What follows rewriter.confirm_rewrite(): its answer is True ("yes"), False
\* ("no"), or typer.confirm raises Abort on a closed input ("abort").
ConfirmExitIgnored(answer) == "none"

ConfirmExit(answer) ==
    IF answer = "yes" THEN "none"
    ELSE IF answer = "no" THEN "Exit0"
    ELSE "Abort"

\* What follows rewriter.check_filter_repo().
CheckExit(found) == IF found = "found" THEN "none" ELSE "Exit1"

RewriteExitSwallowed(raised) == "none"

\* The try around rewriter.rewrite_history: three exception types end the flow
\* with exit code 1, any other propagates.
RewriteExit(raised) ==
    IF raised = "ok" THEN "none"
    ELSE IF raised \in {"CalledProcessError", "RuntimeError", "SystemExit"} THEN "Exit1"
    ELSE raised

\* The try around rewriter.commit_artifacts: CalledProcessError is a warning.
ArtifactsExit(raised) ==
    IF raised \in {"ok", "CalledProcessError"} THEN "none" ELSE raised

\* The try around rewriter.force_push.
PushExit(raised) ==
    IF raised = "ok" THEN "return"
    ELSE IF raised \in {"CalledProcessError", "RuntimeError"} THEN "Exit1"
    ELSE raised

\* The message lists of a call: messages are told apart by their number.
FlowMessageLists == {[i \in 1..n |-> i] : n \in 0..MaxFlowMessages}

FlowInputs ==
    {in \in [filtered_given : BOOLEAN, filtered : FlowMessageLists,
             result_messages : FlowMessageLists, yes : BOOLEAN, push : BOOLEAN,
             changelog_file : {"None", "", "CHANGELOG.md"}] :
       ~in.filtered_given => in.filtered = <<>>}

NoFlowInput ==
    [filtered_given |-> FALSE, filtered |-> <<>>, result_messages |-> <<>>,
     yes |-> FALSE, push |-> FALSE, changelog_file |-> "None"]

FlowIdle ==
    /\ fl_in = NoFlowInput
    /\ fl_pc = "idle"
    /\ fl_log = <<>>
    /\ fl_exit = "none"

(***************************************************************************)
(* gitre/cli.py: the analyze command and _run_generation.                  *)
(***************************************************************************)
MaxAnalyzed == 2
MaxBatchSize == 2

Reverse(s) == [i \in 1..Len(s) |-> s[Len(s) + 1 - i]]

\* The commits of the range, each after its parent: commit 1 is the oldest.
History(n) == [i \in 1..n |-> CommitOf(i)]

\* git log lists a commit before its parents.
GitLog(history) == Reverse(history)

\* get_commits: git log --reverse gives the listing in reverse.
GitLogReverse(history) == Reverse(GitLog(history))

\* The commits analyze generates for: enrich_commit keeps each in its place.
Enriched(in) == GitLogReverse(History(in.n))

\* The except clause around _run_generation: RuntimeError is reported and ends
\* the command with code 1, any other exception leaves the command uncaught.
GenerationExit(raised) ==
    IF raised = "RuntimeError"
    THEN [code |-> 1, err |-> "Error generating messages", raised |-> raised]
    ELSE [code |-> 1, err |-> "Traceback", raised |-> raised]

\* enriched[i : i + batch_size], i counted from 0.
BatchSlice(enriched, i, batch_size) ==
    Slice(enriched, i + 1, IF i + batch_size < Len(enriched) THEN i + batch_size
                           ELSE Len(enriched))

\* generate_messages_batch returning: one message for each commit of the batch,
\* in the order of the batch.
BatchMessages(batch) ==
    [i \in 1..Len(batch) |-> _parse_single_response(Valid1, batch[i]).msg]

AnalyzeInputs ==
    [push : BOOLEAN, live : BOOLEAN, repo_ok : BOOLEAN, log_ok : BOOLEAN,
     n : 0..MaxAnalyzed, batch_size : 1..MaxBatchSize]

NoAnalyzeInput ==
    [push |-> FALSE, live |-> FALSE, repo_ok |-> FALSE, log_ok |-> FALSE,
     n |-> 0, batch_size |-> 1]

\* code -1: the command has not ended.  saved: the AnalysisResult handed to
\* cache.save_analysis, if any.  text: the last text a request returned.
NoAnalyzeOut ==
    [code |-> -1, out |-> "", err |-> "", raised |-> "none", saved |-> <<>>,
     flow |-> FALSE, text |-> <<>>]

AnalyzeIdle ==
    /\ az_in = NoAnalyzeInput
    /\ az_pc = "idle"
    /\ az_messages = <<>>
    /\ az_out = NoAnalyzeOut

(***************************************************************************)
(* gitre/analyzer.py: get_commits, from the output of git log on.  The     *)
(* separators "---GITRE_RECORD---" and "---GITRE_SEP---" are the tokens    *)
(* "REC" and "SEP".                                                        *)
(***************************************************************************)
_RECORD_SEP == "REC"
_FIELD_SEP == "SEP"

MaxRecords == 2
MaxFields == 6

\* A split that ignores maxsplit.
RECURSIVE SplitMaxUnbounded(_, _, _)
SplitMaxUnbounded(s, sep, maxsplit) ==
    LET i == Find(s, sep)
    IN IF i = 0 THEN <<s>>
       ELSE <<Slice(s, 1, i - 1)>>
            \o SplitMaxUnbounded(Slice(s, i + 1, Len(s)), sep, maxsplit)

\* s.split(sep, maxsplit): at most maxsplit cuts, the rest is the last part.
RECURSIVE SplitMax(_, _, _)
SplitMax(s, sep, maxsplit) ==
    LET i == Find(s, sep)
    IN IF i = 0 \/ maxsplit = 0 THEN <<s>>
       ELSE <<Slice(s, 1, i - 1)>>
            \o SplitMax(Slice(s, i + 1, Len(s)), sep, maxsplit - 1)

\* s.split(sep)
Split(s, sep) == SplitMax(s, sep, Len(s))

\* _parse_git_date: the date parsed, or the current time when it does not parse.
_parse_git_date(date_str) == IF date_str = <<"d">> THEN "date" ELSE "now"

\* The body of the loop over the records: the commits and the warnings of one
\* record.  The tags come from a lookup of their own.
RecordCommits(record) ==
    LET stripped == Strip(record)
        parts == SplitMax(stripped, _FIELD_SEP, 4)
    IN IF stripped = <<>> THEN [commits |-> <<>>, warnings |-> 0]
       ELSE IF Len(parts) < 5 THEN [commits |-> <<>>, warnings |-> 1]
       ELSE [commits |-> <<[hash |-> Strip(parts[1]),
                            short_hash |-> Strip(parts[2]),
                            author |-> Strip(parts[3]),
                            date |-> _parse_git_date(Strip(parts[4])),
                            original_message |-> Strip(parts[5])]>>,
             warnings |-> 0]

RECURSIVE ParseRecords(_)
ParseRecords(records) ==
    IF records = <<>> THEN [commits |-> <<>>, warnings |-> 0]
    ELSE LET first == RecordCommits(Head(records))
             rest == ParseRecords(Tail(records))
         IN [commits |-> first.commits \o rest.commits,
             warnings |-> first.warnings + rest.warnings]

get_commits(raw) ==
    IF Strip(raw) = <<>> THEN [commits |-> <<>>, warnings |-> 0]
    ELSE ParseRecords(Split(raw, _RECORD_SEP))

(***************************************************************************)
(* The outputs of git log handed to get_commits: up to MaxRecords records  *)
(* of up to MaxFields fields.  A record of more than five fields is one    *)
(* whose message holds the field separator.                                *)
(***************************************************************************)
RecordShapes == [n : 0..MaxFields, pad : BOOLEAN, date_ok : BOOLEAN]

FieldText(i, shape, j) ==
    LET base == IF j = 1 THEN FullHash(i)
                ELSE IF j = 2 THEN ShortHash(i)
                ELSE IF j = 3 THEN <<"A">>
                ELSE IF j = 4 THEN (IF shape.date_ok THEN <<"d">> ELSE <<"?">>)
                ELSE IF j = 5 THEN <<"m">>
                ELSE <<"x">>
    IN IF shape.pad THEN <<"sp">> \o base \o <<"sp">> ELSE base

\* The fields from the a-th to the b-th with the field separator between them.
RECURSIVE JoinFields(_, _, _, _)
JoinFields(i, shape, a, b) ==
    IF a > b THEN <<>>
    ELSE IF a = b THEN FieldText(i, shape, a)
    ELSE FieldText(i, shape, a) \o <<_FIELD_SEP>> \o JoinFields(i, shape, a + 1, b)

\* git log --format=<record separator><format>: each record is followed by a
\* line break.
RECURSIVE LogText(_, _)
LogText(shapes, i) ==
    IF i > Len(shapes) THEN <<>>
    ELSE <<_RECORD_SEP>> \o JoinFields(i, shapes[i], 1, shapes[i].n) \o <<"nl">>
         \o LogText(shapes, i + 1)

RECURSIVE ShapeSeqs(_)
ShapeSeqs(n) ==
    IF n = 0 THEN {<<>>}
    ELSE ShapeSeqs(n - 1)
         \cup {Append(q, sh) : q \in {r \in ShapeSeqs(n - 1) : Len(r) = n - 1},
                                sh \in RecordShapes}

LogOutputs == {[shapes |-> q, text |-> LogText(q, 1)] : q \in ShapeSeqs(MaxRecords)}

NoLogOut == [called |-> FALSE, commits |-> <<>>, warnings |-> 0]

LogIdle ==
    /\ lg_raw = [shapes |-> <<>>, text |-> <<>>]
    /\ lg_out = NoLogOut

(***************************************************************************)
(* gitre/formatter.py: format_changelog.  The text is the sequence of its  *)
(* lines; tags is the dict as a function on the hashes it holds.           *)
(***************************************************************************)
MaxChangelog == 3

_CATEGORY_ORDER == <<"Added", "Changed", "Deprecated", "Removed", "Fixed", "Security">>

\* hash_to_tag.get(msg.hash, "Unreleased")
VersionOf(msg, tags) ==
    IF msg.hash \in DOMAIN tags THEN tags[msg.hash] ELSE "Unreleased"

VersionsOf(msgs, tags) == {VersionOf(msgs[i], tags) : i \in 1..Len(msgs)}

FirstAt(msgs, tags, v) ==
    CHOOSE i \in 1..Len(msgs) :
        /\ VersionOf(msgs[i], tags) = v
        /\ \A j \in 1..(i - 1) : VersionOf(msgs[j], tags) # v

\* The versions with "Unreleased" moved to the front.
OrderedVersionsUnreleasedFirst(msgs, tags) ==
    LET Key(v) == IF v = "Unreleased" THEN 0 ELSE FirstAt(msgs, tags, v)
        Rank(v) == Cardinality({w \in VersionsOf(msgs, tags) : Key(w) < Key(v)}) + 1
    IN [r \in 1..Cardinality(VersionsOf(msgs, tags)) |->
          CHOOSE v \in VersionsOf(msgs, tags) : Rank(v) = r]

\* ordered_versions of _group_messages_by_version: a version is appended when
\* the walk over the messages meets it for the first time.
RECURSIVE OrderedVersions(_, _)
OrderedVersions(msgs, tags) ==
    IF msgs = <<>> THEN <<>>
    ELSE LET before == OrderedVersions(SubSeq(msgs, 1, Len(msgs) - 1), tags)
             version == VersionOf(msgs[Len(msgs)], tags)
         IN IF Has(before, version) THEN before ELSE Append(before, version)

\* The dict returned, as the sequence of its items.
_group_messages_by_version(msgs, tags) ==
    LET ordered_versions == OrderedVersions(msgs, tags)
        Group(v) == SelectSeq(msgs, LAMBDA msg : VersionOf(msg, tags) = v)
    IN [i \in 1..Len(ordered_versions) |->
          <<ordered_versions[i], Group(ordered_versions[i])>>]

_format_version_heading(version) == <<"## [", version, "]">>

RECURSIVE CategoryLines(_, _)
CategoryLines(entries, i) ==
    IF i > Len(_CATEGORY_ORDER) THEN <<>>
    ELSE LET cat == _CATEGORY_ORDER[i]
             of_cat == SelectSeq(entries, LAMBDA msg : msg.changelog_category = cat)
         IN (IF of_cat = <<>> THEN <<>>
             ELSE <<<<"### ", cat>>>>
                  \o [k \in 1..Len(of_cat) |-> <<"- ", of_cat[k].changelog_entry>>]
                  \o <<<<"">>>>)
            \o CategoryLines(entries, i + 1)

_render_category_block(entries) == CategoryLines(entries, 1)

ChangelogHeader ==
    << <<"# Changelog">>, <<"">>,
       <<"All notable changes to this project will be documented in this file.">>,
       <<"">> >>

RECURSIVE VersionSections(_, _)
VersionSections(version_groups, i) ==
    IF i > Len(version_groups) THEN <<>>
    ELSE <<_format_version_heading(version_groups[i][1]), <<"">>>>
         \o _render_category_block(version_groups[i][2])
         \o VersionSections(version_groups, i + 1)

\* format_changelog without a repo_url.
format_changelog(msgs, tags) ==
    IF msgs = <<>>
    THEN << <<"# Changelog">>, <<"">>,
            <<"All notable changes to this project will be documented in this file.">>,
            <<"">>, <<"## [Unreleased]">>, <<"">>, <<"No changes yet.">> >>
    ELSE ChangelogHeader
         \o VersionSections(_group_messages_by_version(msgs, tags), 1)

ChangelogHashes == 1..MaxChangelog

\* The messages of a changelog: of distinct commits, in any order.
ChangelogMessage(h, cat) ==
    [hash |-> h, changelog_category |-> cat, changelog_entry |-> h]

RECURSIVE ChangelogMessageLists(_)
ChangelogMessageLists(n) ==
    IF n = 0 THEN {<<>>}
    ELSE ChangelogMessageLists(n - 1)
         \cup {Append(q, ChangelogMessage(h, cat)) :
                 q \in {r \in ChangelogMessageLists(n - 1) :
                          Len(r) = n - 1},
                 h \in ChangelogHashes, cat \in {"Added", "Fixed"}}

DistinctHashes(msgs) ==
    \A i, j \in 1..Len(msgs) : i # j => msgs[i].hash # msgs[j].hash

TagNames == {"v1", "v2", "Unreleased"}

ChangelogTags == UNION {[D -> TagNames] : D \in SUBSET ChangelogHashes}

ChangelogInputs ==
    {in \in [messages : ChangelogMessageLists(MaxChangelog), tags : ChangelogTags] :
       DistinctHashes(in.messages)}

NoChangelogInput == [messages |-> <<>>, tags |-> <<>>]

ChangelogIdle ==
    /\ cl_in = NoChangelogInput
    /\ cl_out = <<>>

\* Every library variable at rest, but those of the named group.
LibIdle(group) ==
    /\ IF group = "parse" THEN TRUE ELSE ParseIdle
    /\ IF group = "batch" THEN TRUE ELSE BatchIdle
    /\ IF group = "trunc" THEN TRUE ELSE TruncIdle
    /\ IF group = "diff" THEN TRUE ELSE DiffIdle
    /\ IF group = "commit" THEN TRUE ELSE CommitIdle
    /\ IF group = "backup" THEN TRUE ELSE BackupIdle
    /\ IF group = "flow" THEN TRUE ELSE FlowIdle
    /\ IF group = "analyze" THEN TRUE ELSE AnalyzeIdle
    /\ IF group = "log" THEN TRUE ELSE LogIdle
    /\ IF group = "changelog" THEN TRUE ELSE ChangelogIdle

(***************************************************************************)
(* The specification of the rewriter.                                      *)
(***************************************************************************)
NoExIn == [pre |-> <<>>, json |-> JNone, style |-> "none", fence |-> "none", post |-> <<>>]
NoExOut == [status |-> "idle", value |-> JNone]

ExtractIdle ==
    /\ ex_in = NoExIn
    /\ ex_text = <<>>
    /\ ex_out = NoExOut

Init ==
    /\ pc = "check"
    /\ \E mode \in {"same", "distinct"}, rs \in RemoteConfigs, stale \in BOOLEAN :
        repo = InitialRepo(mode, rs, stale)
    /\ repo0 = repo
    /\ now = 1
    /\ messages \in MessageLists
    /\ backup_branch = <<>>
    /\ hash_map = <<>>
    /\ results = <<>>
    /\ remotes = <<>>
    /\ callback_file = NoFile
    /\ filter_calls = 0
    /\ cursor = 0
    /\ stream = <<>>
    /\ restore_idx = 1
    /\ outcome = NoOutcome
    /\ steps = <<>>
    /\ push_log = <<>>
    /\ push_outcome = NoOutcome
    /\ ExtractIdle
    /\ LibIdle("none")

Next ==
    \/ CheckTool
    \/ CreateBackup
    \/ BuildMapping
    \/ SaveRemotes
    \/ WriteCallback
    \/ FilterStart
    \/ FilterCommit
    \/ FilterFinish
    \/ FilterFail
    \/ RestoreAdd
    \/ RestoreTracking
    \/ Return
    \/ ForcePush

Spec == Init /\ [][Next]_vars

(***************************************************************************)
(* The specification of the extraction: one call of _extract_json on a     *)
(* response text, the rewriter being idle.                                 *)
(***************************************************************************)
RewriterIdle ==
    /\ pc = "idle"
    /\ repo = InitialRepo("distinct", <<>>, FALSE)
    /\ repo0 = repo
    /\ now = 1
    /\ messages = <<>>
    /\ backup_branch = <<>>
    /\ hash_map = <<>>
    /\ results = <<>>
    /\ remotes = <<>>
    /\ callback_file = NoFile
    /\ filter_calls = 0
    /\ cursor = 0
    /\ stream = <<>>
    /\ restore_idx = 1
    /\ outcome = NoOutcome
    /\ steps = <<>>
    /\ push_log = <<>>
    /\ push_outcome = NoOutcome

InitExtract ==
    /\ RewriterIdle
    /\ LibIdle("none")
    /\ ex_in \in [pre : ProseBefore, json : JsonInputs, style : {"plain", "pretty"},
                  fence : Fences, post : ProseAfter]
    /\ ex_text = ResponseText(ex_in)
    /\ ex_out = NoExOut

ExtractJson ==
    /\ ex_out.status = "idle"
    /\ ex_in # NoExIn
    /\ ex_out' = _extract_json(ex_text)
    /\ UNCHANGED <<rw_vars, push_vars, ex_in, ex_text, lib_vars>>

NextExtract == ExtractJson

SpecExtract == InitExtract /\ [][NextExtract]_vars

(***************************************************************************)
(* The specification of the extraction from fenced blocks: one call of     *)
(* _extract_json on a text of one or more Markdown fences, each with a     *)
(* language tag (or none) and a body, with prose between them.             *)
(***************************************************************************)
MaxBlocks == 2

FenceBodies ==
    { <<"p", "sp", "p">>,
      JsonDumps(LacksBoth, "plain"),
      JsonDumps(Valid1, "plain"),
      JsonDumps(JArr(<<Valid1, Valid2>>), "pretty") }

FenceBlocks == [tag : Fences \ {"none"}, body : FenceBodies]

RECURSIVE BlockSeqs(_)
BlockSeqs(n) ==
    IF n = 0 THEN {<<>>}
    ELSE BlockSeqs(n - 1)
         \cup {Append(q, b) : q \in {r \in BlockSeqs(n - 1) : Len(r) = n - 1},
                              b \in FenceBlocks}

FencedText(in) ==
    in.pre \o DumpJoined([i \in 1..Len(in.blocks) |->
                             Fenced(in.blocks[i].tag, in.blocks[i].body)],
                         <<"nl", "p", "nl">>, <<>>)

InitFences ==
    /\ RewriterIdle
    /\ LibIdle("none")
    /\ ex_in \in [pre : {<<>>, <<"p", "nl">>}, blocks : BlockSeqs(MaxBlocks) \ {<<>>}]
    /\ ex_text = FencedText(ex_in)
    /\ ex_out = NoExOut

SpecFences == InitFences /\ [][NextExtract]_vars

(***************************************************************************)
(* The specification of the response parsing: one call of                  *)
(* _parse_single_response on a raw response object.                        *)
(***************************************************************************)
InitParse ==
    /\ RewriterIdle
    /\ ExtractIdle
    /\ LibIdle("parse")
    /\ ps_raw \in RawResponses
    /\ ps_commit = CommitOf(1)
    /\ ps_out = NoParseOut

ParseSingle ==
    /\ ps_raw # JNone
    /\ ps_out.status = "idle"
    /\ ps_out' = _parse_single_response(ps_raw, ps_commit)
    /\ UNCHANGED <<ps_raw, ps_commit>>
    /\ UNCHANGED not_parse_vars

NextParse == ParseSingle

SpecParse == InitParse /\ [][NextParse]_vars

(***************************************************************************)
(* The specification of the batch generation: one call of                  *)
(* generate_messages_batch, one action per stretch between two awaits.     *)
(***************************************************************************)
InitBatch ==
    /\ RewriterIdle
    /\ ExtractIdle
    /\ LibIdle("batch")
    /\ bt_pc = "start"
    /\ bt_commits \in {[i \in 1..n |-> CommitOf(i)] : n \in 0..MaxBatch}
    /\ bt_raw = <<>>
    /\ bt_idx = 1
    /\ bt_messages = <<>>
    /\ bt_calls = <<>>
    /\ bt_out = NoBatchOut

BatchRaise(kind) == bt_pc' = "raised" /\ bt_out' = [kind |-> kind]

\* Up to the first await: no commits, one commit (delegated to
\* generate_message), or the batch call.
BatchStart ==
    /\ bt_pc = "start"
    /\ IF bt_commits = <<>>
       THEN /\ bt_pc' = "returned"
            /\ bt_out' = [kind |-> "BatchResult"]
            /\ UNCHANGED bt_calls
       ELSE IF Len(bt_commits) = 1
       THEN /\ bt_pc' = "await_single"
            /\ bt_calls' = <<<<"single", 1>>>>
            /\ UNCHANGED bt_out
       ELSE /\ bt_pc' = "await_batch"
            /\ bt_calls' = <<<<"batch", 0>>>>
            /\ UNCHANGED bt_out
    /\ UNCHANGED <<bt_commits, bt_raw, bt_idx, bt_messages>>
    /\ UNCHANGED not_batch_vars

BatchArrayTaken(r) ==
    IF r.status = "ok"
    THEN /\ bt_raw' = r.raw
         /\ bt_pc' = "loop"
         /\ UNCHANGED bt_out
    ELSE /\ BatchRaise(r.status)
         /\ UNCHANGED bt_raw

\* The batch call answers: the text is checked, extracted and wrapped.
BatchResponse ==
    /\ bt_pc = "await_batch"
    /\ \E text \in BatchTexts(Len(bt_commits)) : BatchArrayTaken(BatchArray(text))
    /\ UNCHANGED <<bt_commits, bt_idx, bt_messages, bt_calls>>
    /\ UNCHANGED not_batch_vars

\* The message put in front of the list instead of at its end.
MessageTakenInFront(r) ==
    IF r.status = "ok"
    THEN /\ bt_messages' = <<r.msg>> \o bt_messages
         /\ bt_idx' = bt_idx + 1
         /\ bt_pc' = "loop"
         /\ UNCHANGED bt_out
    ELSE /\ BatchRaise(r.status)
         /\ UNCHANGED <<bt_messages, bt_idx>>

\* A message that could not be built is asked for again, a few times.
MessageTakenRetrying(r) ==
    IF r.status = "ok"
    THEN /\ bt_messages' = Append(bt_messages, r.msg)
         /\ bt_idx' = bt_idx + 1
         /\ bt_pc' = "loop"
         /\ UNCHANGED bt_out
    ELSE IF Len(bt_calls) <= Len(bt_commits) + 1
    THEN /\ bt_pc' = "loop"
         /\ UNCHANGED <<bt_messages, bt_idx, bt_out>>
    ELSE /\ BatchRaise(r.status)
         /\ UNCHANGED <<bt_messages, bt_idx>>

\* messages.append(msg) and on to the next index, or the error of building
\* the message leaves the call.
MessageTaken(r) ==
    IF r.status = "ok"
    THEN /\ bt_messages' = Append(bt_messages, r.msg)
         /\ bt_idx' = bt_idx + 1
         /\ bt_pc' = "loop"
         /\ UNCHANGED bt_out
    ELSE /\ BatchRaise(r.status)
         /\ UNCHANGED <<bt_messages, bt_idx>>

\* One turn of the loop: the element at the index is parsed, or the single
\* call for its commit is started.
BatchElement ==
    /\ bt_pc = "loop"
    /\ bt_idx <= Len(bt_commits)
    /\ IF bt_idx <= Len(bt_raw) /\ bt_raw[bt_idx].t = "obj"
       THEN /\ MessageTaken(_parse_single_response(bt_raw[bt_idx], bt_commits[bt_idx]))
            /\ UNCHANGED bt_calls
       ELSE /\ bt_calls' = Append(bt_calls, <<"single", bt_idx>>)
            /\ bt_pc' = "await_single"
            /\ UNCHANGED <<bt_messages, bt_idx, bt_out>>
    /\ UNCHANGED <<bt_commits, bt_raw>>
    /\ UNCHANGED not_batch_vars

\* The single call for the commit at the index answers.
SingleResponse ==
    /\ bt_pc = "await_single"
    /\ \E text \in SingleTexts : MessageTaken(generate_message(text, bt_commits[bt_idx]))
    /\ UNCHANGED <<bt_commits, bt_raw, bt_calls>>
    /\ UNCHANGED not_batch_vars

\* A request that fails (_ensure_sdk raises RuntimeError, query() raises
\* whatever the SDK raises): the exception leaves the call.
RequestFails ==
    /\ bt_pc \in {"await_batch", "await_single"}
    /\ \E kind \in {"RuntimeError", "SDKError"} : BatchRaise(kind)
    /\ UNCHANGED <<bt_commits, bt_raw, bt_idx, bt_messages, bt_calls>>
    /\ UNCHANGED not_batch_vars

BatchReturn ==
    /\ bt_pc = "loop"
    /\ bt_idx > Len(bt_commits)
    /\ bt_pc' = "returned"
    /\ bt_out' = [kind |-> "BatchResult"]
    /\ UNCHANGED <<bt_commits, bt_raw, bt_idx, bt_messages, bt_calls>>
    /\ UNCHANGED not_batch_vars

NextBatch ==
    \/ BatchStart
    \/ BatchResponse
    \/ BatchElement
    \/ SingleResponse
    \/ RequestFails
    \/ BatchReturn

SpecBatch == InitBatch /\ [][NextBatch]_vars

\* A request is out and not yet answered.
Awaiting == bt_pc \in {"await_batch", "await_single"}

\* asyncio.run drives the coroutine until it is done: a step of the code that
\* can be taken is taken.  The model answers each request, with a text or
\* with a failure: no request stays out for ever.
SpecBatchFair ==
    /\ SpecBatch
    /\ WF_vars(BatchStart \/ BatchElement \/ BatchReturn)
    /\ [](Awaiting => <>~Awaiting)

(***************************************************************************)
(* The specification of the truncation: one call of truncate_diff.         *)
(***************************************************************************)
InitTruncate ==
    /\ RewriterIdle
    /\ ExtractIdle
    /\ LibIdle("trunc")
    /\ td_text \in DiffTexts(MaxDiffLen)
    /\ td_max \in 0..MaxDiffBytes
    /\ td_out = NoTruncOut

TruncateDiff ==
    /\ ~td_out.done
    /\ td_out' = [done |-> TRUE, text |-> truncate_diff(td_text, td_max)]
    /\ UNCHANGED <<td_text, td_max>>
    /\ UNCHANGED not_trunc_vars

NextTruncate == TruncateDiff

SpecTruncate == InitTruncate /\ [][NextTruncate]_vars

(***************************************************************************)
(* The specification of the diff: get_diff and _parse_numstat, each called *)
(* once for a commit (as enrich_commit calls them).                        *)
(***************************************************************************)
InitDiff ==
    /\ RewriterIdle
    /\ ExtractIdle
    /\ LibIdle("diff")
    /\ gd_commit \in DiffCommits
    /\ gd_cmds = <<>>
    /\ gd_out = NoDiffOut
    /\ ns_cmds = <<>>
    /\ ns_out = NoNumstatOut

GetDiff ==
    /\ gd_commit # NoCommit
    /\ ~gd_out.done
    /\ gd_cmds' = get_diff(gd_commit).cmds
    /\ gd_out' = [done |-> TRUE,
                  diff_stat |-> get_diff(gd_commit).diff_stat,
                  diff_patch |-> get_diff(gd_commit).diff_patch]
    /\ UNCHANGED <<gd_commit, ns_cmds, ns_out>>
    /\ UNCHANGED not_diff_vars

ParseNumstat ==
    /\ gd_commit # NoCommit
    /\ gd_out.done
    /\ ~ns_out.done
    /\ ns_cmds' = _parse_numstat(gd_commit).cmds
    /\ ns_out' = [done |-> TRUE, totals |-> _parse_numstat(gd_commit).totals]
    /\ UNCHANGED <<gd_commit, gd_cmds, gd_out>>
    /\ UNCHANGED not_diff_vars

NextDiff == GetDiff \/ ParseNumstat

SpecDiff == InitDiff /\ [][NextDiff]_vars

(***************************************************************************)
(* The specification of gitre commit: one run of the command.              *)
(***************************************************************************)
InitCommit ==
    /\ RewriterIdle
    /\ ExtractIdle
    /\ LibIdle("commit")
    /\ cm_in \in CommitInputs
    /\ cm_pc = "start"
    /\ cm_code = 0
    /\ cm_err = <<>>
    /\ cm_flow = NoFlow

Commit ==
    /\ cm_pc = "start"
    /\ cm_pc' = commit(cm_in).pc
    /\ cm_code' = commit(cm_in).code
    /\ cm_err' = commit(cm_in).err
    /\ cm_flow' = commit(cm_in).flow
    /\ UNCHANGED cm_in
    /\ UNCHANGED not_cli_vars

NextCommit == Commit

SpecCommit == InitCommit /\ [][NextCommit]_vars

(***************************************************************************)
(* The specification of the backups: calls of create_backup on one         *)
(* repository while time passes.                                           *)
(***************************************************************************)
InitBackup ==
    /\ RewriterIdle
    /\ ExtractIdle
    /\ LibIdle("backup")
    /\ bk_repo = InitialRepo("distinct", <<>>, FALSE)
    /\ bk_clock = 0
    /\ bk_log = <<>>

BackupTick ==
    /\ bk_clock < MaxClock
    /\ bk_clock' = bk_clock + 1
    /\ UNCHANGED <<bk_repo, bk_log>>
    /\ UNCHANGED not_backup_vars

BackupCall ==
    /\ Len(bk_log) < MaxBackupCalls
    /\ \E git_ok \in BOOLEAN :
         LET res == create_backup(bk_repo, Timestamp(bk_clock), git_ok)
         IN /\ bk_repo' = res.repo
            /\ bk_log' = Append(bk_log, [ok |-> res.ok, name |-> res.name,
                                         at |-> bk_clock, git_ok |-> git_ok])
    /\ UNCHANGED bk_clock
    /\ UNCHANGED not_backup_vars

NextBackup == BackupTick \/ BackupCall

SpecBackup == InitBackup /\ [][NextBackup]_vars

(***************************************************************************)
(* The specification of _run_commit_flow: one call, step by step.          *)
(***************************************************************************)
InitFlow ==
    /\ RewriterIdle
    /\ ExtractIdle
    /\ LibIdle("flow")
    /\ fl_in \in FlowInputs
    /\ fl_pc = "start"
    /\ fl_log = <<>>
    /\ fl_exit = "none"

\* One step of the flow: what it did, how the flow goes on.
FlowStep(step, result, exit, next) ==
    /\ fl_log' = Append(fl_log, <<step, result>>)
    /\ fl_exit' = exit
    /\ fl_pc' = IF exit = "none" THEN next ELSE "done"
    /\ UNCHANGED fl_in
    /\ UNCHANGED not_flow_vars

\* The empty list check, then rewriter.display_proposals.
FlowStart ==
    /\ fl_pc = "start"
    /\ IF FlowMessages(fl_in) = <<>>
       THEN FlowStep("echo", "No messages to rewrite.", "return", "done")
       ELSE FlowStep("display", "ok", "none",
                     IF fl_in.yes THEN "check" ELSE "confirm")

FlowConfirm ==
    /\ fl_pc = "confirm"
    /\ \E answer \in {"yes", "no", "abort"} :
         FlowStep("confirm", answer, ConfirmExit(answer), "check")

FlowCheck ==
    /\ fl_pc = "check"
    /\ \E found \in {"found", "missing"} :
         FlowStep("check", found, CheckExit(found), "rewrite")

FlowRewrite ==
    /\ fl_pc = "rewrite"
    /\ \E raised \in {"ok", "CalledProcessError", "RuntimeError", "SystemExit", "OSError"} :
         FlowStep("rewrite", raised, RewriteExit(raised),
                  IF Truthy(fl_in.changelog_file) THEN "changelog" ELSE "artifacts")

\* formatter.format_changelog and rewriter.write_changelog, outside any try.
FlowChangelog ==
    /\ fl_pc = "changelog"
    /\ \E raised \in {"ok", "OSError"} :
         FlowStep("changelog", raised, IF raised = "ok" THEN "none" ELSE raised,
                  "artifacts")

FlowArtifacts ==
    /\ fl_pc = "artifacts"
    /\ \E raised \in {"ok", "CalledProcessError", "OSError"} :
         FlowStep("artifacts", raised, ArtifactsExit(raised), "report")

FlowReport ==
    /\ fl_pc = "report"
    /\ IF fl_in.push
       THEN FlowStep("report", "ok", "none", "push")
       ELSE FlowStep("report", "ok", "return", "done")

FlowPush ==
    /\ fl_pc = "push"
    /\ \E raised \in {"ok", "CalledProcessError", "RuntimeError", "OSError"} :
         FlowStep("push", raised, PushExit(raised), "done")

NextFlow ==
    \/ FlowStart
    \/ FlowConfirm
    \/ FlowCheck
    \/ FlowRewrite
    \/ FlowChangelog
    \/ FlowArtifacts
    \/ FlowReport
    \/ FlowPush

SpecFlow == InitFlow /\ [][NextFlow]_vars

(***************************************************************************)
(* The specification of gitre analyze: one run of the command, one request *)
(* to the model at a time.                                                 *)
(***************************************************************************)
InitAnalyze ==
    /\ RewriterIdle
    /\ ExtractIdle
    /\ LibIdle("analyze")
    /\ az_in \in AnalyzeInputs
    /\ az_pc = "start"
    /\ az_messages = <<>>
    /\ az_out = NoAnalyzeOut

AnalyzeExit(code, out, err, raised) ==
    /\ az_pc' = "exit"
    /\ az_out' = [az_out EXCEPT !.code = code, !.out = out, !.err = err,
                                !.raised = raised]

\* Steps 0 to 3: the flags, the repository, get_commits, enrich_commit.
AnalyzeStart ==
    /\ az_pc = "start"
    /\ IF az_in.push /\ ~az_in.live
       THEN AnalyzeExit(1, "", "Error: --push requires --live.", "none")
       ELSE IF ~az_in.repo_ok
       THEN AnalyzeExit(1, "", "Error: not a git repository", "none")
       ELSE IF ~az_in.log_ok
       THEN AnalyzeExit(1, "", "Error fetching commits", "none")
       ELSE IF Enriched(az_in) = <<>>
       THEN AnalyzeExit(0, "No commits found in the specified range.", "", "none")
       ELSE az_pc' = "generate" /\ UNCHANGED az_out
    /\ UNCHANGED <<az_in, az_messages>>
    /\ UNCHANGED not_analyze_vars

Generating(single) ==
    /\ az_pc = "generate"
    /\ Len(az_messages) < Len(Enriched(az_in))
    /\ single <=> az_in.batch_size <= 1

\* generate_message has returned r, or raised, on the text of the request.
SingleTaken(text, r, exit) ==
    IF r.status = "ok"
    THEN /\ az_messages' = Append(az_messages, r.msg)
         /\ az_out' = [az_out EXCEPT !.text = text]
         /\ UNCHANGED az_pc
    ELSE /\ az_pc' = "exit"
         /\ az_out' = [az_out EXCEPT !.code = exit.code, !.err = exit.err,
                                     !.raised = exit.raised, !.text = text]
         /\ UNCHANGED az_messages

SingleAnswered(text, r) == SingleTaken(text, r, GenerationExit(r.status))

\* _generate_singles: one turn of its loop, the request answered with a text.
AnalyzeSingle ==
    /\ Generating(TRUE)
    /\ \E text \in SingleTexts :
         SingleAnswered(text, generate_message(text, Enriched(az_in)[Len(az_messages) + 1]))
    /\ UNCHANGED az_in
    /\ UNCHANGED not_analyze_vars

\* _generate_batch: one turn of its loop; generate_messages_batch returns the
\* messages of the batch or raises.
AnalyzeBatch ==
    /\ Generating(FALSE)
    /\ \E raised \in {"ok", "RuntimeError", "ValueError", "ValidationError"} :
         LET batch == BatchSlice(Enriched(az_in), Len(az_messages), az_in.batch_size)
             exit == GenerationExit(raised)
         IN IF raised = "ok"
            THEN /\ az_messages' = az_messages \o BatchMessages(batch)
                 /\ UNCHANGED <<az_pc, az_out>>
            ELSE /\ AnalyzeExit(exit.code, "", exit.err, exit.raised)
                 /\ UNCHANGED az_messages
    /\ UNCHANGED az_in
    /\ UNCHANGED not_analyze_vars

\* A request that raises: the SDK is not installed, or the query fails.
AnalyzeRequestFails ==
    /\ az_pc = "generate"
    /\ Len(az_messages) < Len(Enriched(az_in))
    /\ \E raised \in {"RuntimeError", "SDKError"} :
         LET exit == GenerationExit(raised)
         IN AnalyzeExit(exit.code, "", exit.err, exit.raised)
    /\ UNCHANGED <<az_in, az_messages>>
    /\ UNCHANGED not_analyze_vars

\* Steps 5 to 10: the AnalysisResult is built and saved, the output shown, and
\* with --live _run_commit_flow is called.
AnalyzeSave ==
    /\ az_pc = "generate"
    /\ Len(az_messages) = Len(Enriched(az_in))
    /\ az_pc' = "exit"
    /\ az_out' = [az_out EXCEPT
                    !.code = 0,
                    !.out = "formatted",
                    !.saved = <<[messages |-> az_messages,
                                 commits_analyzed |-> Len(Enriched(az_in))]>>,
                    !.flow = az_in.live]
    /\ UNCHANGED <<az_in, az_messages>>
    /\ UNCHANGED not_analyze_vars

NextAnalyze ==
    \/ AnalyzeStart
    \/ AnalyzeSingle
    \/ AnalyzeBatch
    \/ AnalyzeRequestFails
    \/ AnalyzeSave

SpecAnalyze == InitAnalyze /\ [][NextAnalyze]_vars

(***************************************************************************)
(* The specification of format_changelog: one call.                        *)
(***************************************************************************)
InitChangelog ==
    /\ RewriterIdle
    /\ ExtractIdle
    /\ LibIdle("changelog")
    /\ cl_in \in ChangelogInputs
    /\ cl_out = <<>>

FormatChangelog ==
    /\ cl_out = <<>>
    /\ cl_out' = format_changelog(cl_in.messages, cl_in.tags)
    /\ UNCHANGED cl_in
    /\ UNCHANGED not_changelog_vars

NextChangelog == FormatChangelog

SpecChangelog == InitChangelog /\ [][NextChangelog]_vars

(***************************************************************************)
(* The specification of get_commits: one call on one output of git log.    *)
(***************************************************************************)
InitLog ==
    /\ RewriterIdle
    /\ ExtractIdle
    /\ LibIdle("log")
    /\ lg_raw \in LogOutputs
    /\ lg_out = NoLogOut

GetCommits ==
    /\ ~lg_out.called
    /\ LET res == get_commits(lg_raw.text)
       IN lg_out' = [called |-> TRUE, commits |-> res.commits, warnings |-> res.warnings]
    /\ UNCHANGED lg_raw
    /\ UNCHANGED not_log_vars

NextLog == GetCommits

SpecLog == InitLog /\ [][NextLog]_vars

(***************************************************************************)
(* Properties of rewrite_history and force_push.                           *)
(***************************************************************************)
Logged(e) == \E i \in 1..Len(steps) : steps[i] = e

\* The event f may directly follow the event e.
Follows(e, f) ==
    \/ /\ e[2] = "start"
       /\ f[1] = e[1]
       /\ f[2] \in {"ok", "fail"}
    \/ /\ e[2] = "ok"
       /\ \/ e = Ev("check", "ok") /\ f = Ev("backup", "start")
          \/ e = Ev("backup", "ok") /\ f = Ev("save", "start")
          \/ e = Ev("save", "ok") /\ f = Ev("filter", "start")
          \/ e = Ev("filter", "ok") /\ f = Ev("restore", "start")
          \/ e = Ev("filter", "ok") /\ f = Ev("return", "ok") /\ remotes = <<>>
          \/ e = Ev("restore", "ok") /\ f = Ev("return", "ok")

\* C1: the steps of rewrite_history run in the order check, backup, save
\* remotes, filter-repo, restore remotes, return; a step starts only after
\* the one before it succeeded, and nothing runs after a failed step.
C1_StepOrder ==
    /\ steps # <<>> => steps[1] = Ev("check", "start")
    /\ \A i \in 1..(Len(steps) - 1) : Follows(steps[i], steps[i + 1])
    /\ pc = "raised" <=> (steps # <<>> /\ steps[Len(steps)][2] = "fail")
    /\ pc = "returned" <=> (steps # <<>> /\ steps[Len(steps)] = Ev("return", "ok"))
    /\ (steps # <<>> /\ steps[Len(steps)][2] = "fail") => ~ENABLED
            (CheckTool \/ CreateBackup \/ BuildMapping \/ SaveRemotes \/ WriteCallback
             \/ FilterStart \/ FilterCommit \/ FilterFinish \/ FilterFail
             \/ RestoreAdd \/ RestoreTracking \/ Return)

C1_Witness ==
    /\ pc = "returned"
    /\ Logged(Ev("restore", "ok"))
    /\ Len(steps) = 11

\* C2: when the availability check fails, rewrite_history raises the "not
\* installed" RuntimeError with the install instructions and has changed
\* nothing: no backup branch, no callback file, no filter-repo run, and the
\* repository is as it was at the call.
C2_NotInstalledTouchesNothing ==
    Logged(Ev("check", "fail")) =>
        /\ pc = "raised"
        /\ outcome.kind = "RuntimeError"
        /\ outcome.text[1] = "git-filter-repo is not installed."
        /\ \E system \in Systems :
              outcome.text = <<"git-filter-repo is not installed.", "nl">>
                             \o get_install_instructions(system)
        /\ repo = repo0
        /\ backup_branch = <<>>
        /\ callback_file = NoFile
        /\ filter_calls = 0

C2_Witness ==
    /\ Logged(Ev("check", "fail"))
    /\ pc = "raised"
    /\ repo.remotes # <<>>

SharedOriginalMessage ==
    \A i, j \in 1..Len(repo0.commits) : repo0.commits[i].message = repo0.commits[j].message

OneTargetPerCommit ==
    /\ Len(messages) = Len(repo0.commits)
    /\ \A i \in 1..Len(messages) : messages[i].hash = repo0.commits[i].id
    /\ \A i, j \in 1..Len(messages) :
          i # j => ComposeMessage(messages[i]) # ComposeMessage(messages[j])

\* The message a commit stores for a text: its UTF-8 bytes, ended by the
\* line terminator.
StoredText(text) == EncodeUtf8(text) \o <<"nl">>

\* C4: with N commits sharing one original message and N messages with
\* distinct hashes and distinct targets, after the pass the commit whose
\* original hash is h stores the target composed for h (its UTF-8 bytes and
\* the line terminator), no two commits store the same text, and none stores
\* the text of another hash.
C4_HashKeyedRewrite ==
    (Logged(Ev("filter", "ok")) /\ SharedOriginalMessage /\ OneTargetPerCommit) =>
        /\ Len(repo.commits) = Len(repo0.commits)
        /\ \A i \in 1..Len(repo.commits) :
              repo.commits[i].message = StoredText(ComposeMessage(messages[i]))
        /\ \A i, j \in 1..Len(repo.commits) :
              i # j => /\ repo.commits[i].message # repo.commits[j].message
                       /\ repo.commits[i].message # StoredText(ComposeMessage(messages[j]))

C4_Witness ==
    /\ Logged(Ev("filter", "ok"))
    /\ SharedOriginalMessage
    /\ OneTargetPerCommit
    /\ \E i \in 1..Len(messages) : messages[i].body.some /\ messages[i].body.v # <<>>
    /\ \E i \in 1..Len(messages) : ~messages[i].body.some

\* C5: in the pass, a commit's message changes only when its original full
\* hash is a key of the mapping; every other commit keeps its message, and
\* no field but the message is ever changed by the callback.
C5_CallbackFrame ==
    \A i \in 1..Len(stream) :
        /\ stream[i].author = repo0.commits[i].author
        /\ ~DictHas(hash_map, repo0.commits[i].id) =>
              stream[i].message = repo0.commits[i].message
        /\ stream[i].message # repo0.commits[i].message =>
              DictHas(hash_map, repo0.commits[i].id)

C5_Witness ==
    /\ Len(stream) = Len(repo0.commits)
    /\ \E i \in 1..Len(stream) : ~DictHas(hash_map, repo0.commits[i].id)
    /\ \E i \in 1..Len(stream) : stream[i].message # repo0.commits[i].message
    /\ DictHas(hash_map, ForeignHash)

\* C6, as claimed: after a normal return every remote configured before the
\* call is configured again, with its name and its fetch URL.
C6_RemotesRestored ==
    pc = "returned" =>
        \A i \in 1..Len(repo0.remotes) :
            \E j \in 1..Len(repo.remotes) : repo.remotes[j] = repo0.remotes[i]

\* C7: when filter-repo exits non-zero, rewrite_history raises
\* CalledProcessError and returns no receipt, and the backup branch of this
\* run still exists and still points at the HEAD from before the rewrite.
C7_RewriteFailureSurfaces ==
    Logged(Ev("filter", "fail")) =>
        /\ pc = "raised"
        /\ outcome.kind = "CalledProcessError"
        /\ outcome.value = <<>>
        /\ DictHas(repo.branches, backup_branch)
        /\ DictGet(repo.branches, backup_branch) = HeadId(repo0)
        /\ HeadId(repo) = HeadId(repo0)

C7_Witness ==
    /\ Logged(Ev("filter", "fail"))
    /\ cursor > 1
    /\ results # <<>>

Extraction == ex_out.status # "idle"

NotItselfJson == ~JsonLoads(Strip(ex_text)).ok

\* A JSON array of k >= 1 response objects.
ResponseArray(v) ==
    /\ v.t = "arr"
    /\ Len(v.a) >= 1
    /\ \A i \in 1..Len(v.a) : v.a[i] \in ValidObjects

\* C9: for a text made of prose, then a JSON array of k >= 1 response
\* objects, then optional prose, with no fenced block, _extract_json returns
\* the whole array, all k elements in order, and never one object from
\* inside it.
C9_ProseArrayReturnedWhole ==
    (Extraction /\ ex_in.fence = "none" /\ ex_in.pre # <<>> /\ ResponseArray(ex_in.json)) =>
        ex_out = Extracted(ex_in.json)

\* An object that lacks a required key, or an array none of whose elements
\* is an object with both required keys.
WrongShaped(v) ==
    \/ v.t = "obj" /\ ~HasExpectedKeys(v)
    \/ v.t = "arr" /\ \A i \in 1..Len(v.a) : ~(v.a[i].t = "obj" /\ HasExpectedKeys(v.a[i]))

SubjectFirst(v) == v.t = "obj" /\ v.d # <<>> /\ v.d[1][1] = <<"subject">>

\* The value is, or holds, an object whose first key is "subject".
SubjectFirstInside(v) ==
    \/ SubjectFirst(v)
    \/ v.t = "arr" /\ \E i \in 1..Len(v.a) : SubjectFirst(v.a[i])

\* C10 as stated: for a text whose only JSON content is a well-formed object
\* or array lacking the subject or the changelog_category key, with or
\* without prose around it, _extract_json fails with the could-not-extract
\* error.
C10_WrongShapeRejected ==
    (Extraction /\ ex_in.fence = "none" /\ WrongShaped(ex_in.json)) =>
        ex_out = ExtractError

\* C10, amended: for a text that is not itself a JSON document, has no fenced
\* block, and whose only JSON content is a well-formed object or array
\* lacking a required key in which no object starts with the "subject" key,
\* _extract_json fails with the could-not-extract error.
C10_WrongShapeInProseRejected ==
    (/\ Extraction
     /\ ex_in.fence = "none"
     /\ NotItselfJson
     /\ WrongShaped(ex_in.json)
     /\ ~SubjectFirstInside(ex_in.json)) =>
        ex_out = ExtractError

C10_Witness ==
    /\ Extraction
    /\ ex_in.fence = "none"
    /\ NotItselfJson
    /\ ex_in.pre # <<>>
    /\ ex_in.json = JArr(<<SubjectLate, CategoryOnly>>)
    /\ ex_out = ExtractError

\* What the key validation promises of a returned value.
ValidatedShape(v) ==
    /\ v.t = "obj" => HasExpectedKeys(v)
    /\ v.t = "arr" => (v.a # <<>> /\ v.a[1].t = "obj" /\ HasExpectedKeys(v.a[1]))

\* C11 as stated: for a text that is not itself a JSON document and has no
\* fenced block, every object _extract_json returns has both the subject and
\* the changelog_category key, and every array it returns is non-empty with
\* such an object first.
C11_ReturnedValuesValidated ==
    (Extraction /\ ex_in.fence = "none" /\ NotItselfJson /\ ex_out.status = "ok") =>
        ValidatedShape(ex_out.value)

\* C11, amended: for such a text, every object returned has the subject key,
\* and has the changelog_category key too unless "subject" is its first key;
\* every array returned is non-empty with an object holding both keys first.
C11_ReturnedValuesValidatedOrSubjectFirst ==
    (Extraction /\ ex_in.fence = "none" /\ NotItselfJson /\ ex_out.status = "ok") =>
        /\ ex_out.value.t \in {"obj", "arr"}
        /\ ex_out.value.t = "obj" =>
              /\ DictHas(ex_out.value.d, <<"subject">>)
              /\ (HasExpectedKeys(ex_out.value) \/ SubjectFirst(ex_out.value))
        /\ ex_out.value.t = "arr" => ValidatedShape(ex_out.value)

C11_Witness ==
    /\ Extraction
    /\ ex_in.fence = "none"
    /\ NotItselfJson
    /\ ex_in.json = JArr(<<LacksBoth, Valid2>>)
    /\ ex_out = Extracted(Valid2)

(***************************************************************************)
(* Properties of _extract_json on fenced blocks.                           *)
(***************************************************************************)
\* The body of the block parses as a JSON object or array.
BodyParses(block) == JsonLoads(block.body).ok /\ IsContainer(JsonLoads(block.body).v)

\* The position of the earliest block whose body parses; 0 if none does.
RECURSIVE EarliestParsing(_, _)
EarliestParsing(blocks, i) ==
    IF i > Len(blocks) THEN 0
    ELSE IF BodyParses(blocks[i]) THEN i
    ELSE EarliestParsing(blocks, i + 1)

\* C12: when the text is not valid JSON and holds fenced blocks, _extract_json
\* returns the content of the earliest block, whatever its language tag, whose
\* body parses as a JSON object or array, without checking its keys; blocks
\* whose body does not parse are skipped.
C12_EarliestParsingFence ==
    (Extraction /\ NotItselfJson /\ EarliestParsing(ex_in.blocks, 1) # 0) =>
        ex_out = Extracted(JsonLoads(ex_in.blocks[EarliestParsing(ex_in.blocks, 1)].body).v)

(***************************************************************************)
(* Properties of _parse_single_response.                                   *)
(***************************************************************************)
Parsed == ps_out.status # "idle"

RawHas(key) == DictHas(ps_raw.d, key)

\* The raw changelog_category is one of the six accepted categories.
RecognisedCategory ==
    /\ RawHas(<<"changelog_category">>)
    /\ DictGet(ps_raw.d, <<"changelog_category">>).t = "str"
    /\ DictGet(ps_raw.d, <<"changelog_category">>).s \in CHANGELOG_CATEGORIES

\* C13: _parse_single_response succeeds on every raw response object; the
\* changelog_category of its message is "Changed" when the raw one is missing
\* or is not one of the six accepted categories, and the raw one otherwise.
C13_CategoryDefaultsToChanged ==
    Parsed =>
        /\ ps_out.status = "ok"
        /\ ps_out.msg.changelog_category =
              IF RecognisedCategory
              THEN DictGet(ps_raw.d, <<"changelog_category">>).s
              ELSE <<"Changed">>

\* The raw subject is a string.
StringSubject == RawHas(<<"subject">>) /\ DictGet(ps_raw.d, <<"subject">>).t = "str"

raw_subject == DictGet(ps_raw.d, <<"subject">>).s

\* C14: the message _parse_single_response builds has a subject of at most
\* 72 characters; a raw subject of at most 72 characters is kept unchanged,
\* a longer one becomes its first 69 characters followed by "...", 72
\* characters in all.
C14_SubjectTruncatedTo72 ==
    (Parsed /\ ps_out.status = "ok") =>
        /\ Len(ps_out.msg.subject) <= 72
        /\ StringSubject =>
              IF Len(raw_subject) <= 72
              THEN ps_out.msg.subject = raw_subject
              ELSE /\ Len(ps_out.msg.subject) = 72
                   /\ SubSeq(ps_out.msg.subject, 1, 69) = SubSeq(raw_subject, 1, 69)
                   /\ SubSeq(ps_out.msg.subject, 70, 72) = <<".", ".", ".">>

C14_Witness ==
    /\ ps_out.status = "ok"
    /\ StringSubject
    /\ Len(raw_subject) = 73
    /\ Len(ps_out.msg.subject) = 72

(***************************************************************************)
(* Properties of generate_messages_batch.                                  *)
(***************************************************************************)
\* The response array holds an object at position i.
ObjectAt(i) == i <= Len(bt_raw) /\ bt_raw[i].t = "obj"

\* The positions for which a single call was made.
SingleCalls == {bt_calls[k][2] : k \in {j \in 1..Len(bt_calls) : bt_calls[j][1] = "single"}}

\* C15: a call of generate_messages_batch for N >= 2 commits that returns
\* gives exactly N messages, whatever the length of the response array; the
\* i-th message carries the hash and the short hash of the i-th commit and,
\* when the i-th element of the array is an object, is the message built from
\* that element.
C15_BatchPositional ==
    (bt_pc = "returned" /\ Len(bt_commits) >= 2) =>
        /\ Len(bt_messages) = Len(bt_commits)
        /\ \A i \in 1..Len(bt_commits) :
              /\ bt_messages[i].hash = bt_commits[i].hash
              /\ bt_messages[i].short_hash = bt_commits[i].short_hash
              /\ ObjectAt(i) =>
                    bt_messages[i] = _parse_single_response(bt_raw[i], bt_commits[i]).msg

C15_Witness ==
    /\ bt_pc = "returned"
    /\ Len(bt_commits) = 3
    /\ Len(bt_raw) = 2
    /\ bt_raw[1] = Valid2
    /\ bt_raw[2].t = "str"
    /\ Len(bt_messages) = 3

\* C16: with a response array in hand, no element that is missing, not an
\* object or otherwise bad makes generate_messages_batch fail; when it has
\* returned there is a message for every commit, a single call was made for
\* exactly the positions without an object, and the messages of the other
\* positions are those built from the batch response.
C16_BadElementIsolated ==
    (Len(bt_commits) >= 2 /\ bt_raw # <<>>) =>
        /\ bt_pc # "raised"
        /\ bt_pc = "returned" =>
              /\ Len(bt_messages) = Len(bt_commits)
              /\ SingleCalls = {i \in 1..Len(bt_commits) : ~ObjectAt(i)}
              /\ \A i \in 1..Len(bt_commits) :
                    ObjectAt(i) =>
                       bt_messages[i] = _parse_single_response(bt_raw[i], bt_commits[i]).msg

BatchEnded == bt_pc \in {"returned", "raised"}

CallCount(kind, i) ==
    Cardinality({k \in 1..Len(bt_calls) : bt_calls[k] = <<kind, i>>})

NoRequestRepeated ==
    /\ Len(bt_calls) <= Len(bt_commits) + 1
    /\ CallCount("batch", 0) <= 1
    /\ \A i \in 1..Len(bt_commits) : CallCount("single", i) <= 1
    /\ \A k \in 1..Len(bt_calls) :
          bt_calls[k] = <<"batch", 0>> \/ bt_calls[k][2] \in 1..Len(bt_commits)
    /\ bt_pc = "raised" => ~ENABLED NextBatch

\* C26: a call of generate_messages_batch on N commits makes at most one
\* batch request and at most one single request per commit, N + 1 at most in
\* all; after a failed request or a response that cannot be used nothing is
\* asked again; and once every request is answered the call ends.
C26_NoRepeatedRequestAndTermination ==
    /\ []NoRequestRepeated
    /\ <>BatchEnded

C26_Witness ==
    /\ bt_pc = "raised"
    /\ Len(bt_commits) = 3
    /\ bt_calls = <<<<"batch", 0>>, <<"single", 1>>, <<"single", 2>>, <<"single", 3>>>>
    /\ bt_out.kind = "SDKError"

(***************************************************************************)
(* Properties of truncate_diff.                                            *)
(***************************************************************************)
\* truncate_diff has run and has truncated.
Truncated == td_out.done /\ Len(EncodeUtf8(td_text)) > td_max

\* The result without the two tokens of the marker.
BeforeMarker == Slice(td_out.text, 1, Len(td_out.text) - Len(TruncationMarker))

\* C17: when truncate_diff truncates, its result ends with the marker and
\* the part before the marker has a UTF-8 length of at most max_bytes, also
\* when the cut falls inside a multi-byte character.
C17_TruncatedWithinMaxBytes ==
    Truncated =>
        /\ Len(td_out.text) >= Len(TruncationMarker)
        /\ Slice(td_out.text, Len(td_out.text) - 1, Len(td_out.text)) = TruncationMarker
        /\ Len(EncodeUtf8(BeforeMarker)) <= td_max

(***************************************************************************)
(* Properties of get_diff and _parse_numstat.                              *)
(***************************************************************************)
RanDiff(cmds) == \E i \in 1..Len(cmds) : cmds[i][1] = "diff"

DiffsAgainst(cmds, base) ==
    \A i \in 1..Len(cmds) : cmds[i][1] = "diff" => cmds[i][3] = base

GetDiffByParentCount ==
    gd_out.done =>
        LET n == Len(gd_commit.parents)
        IN /\ n = 0 => RanDiff(gd_cmds) /\ DiffsAgainst(gd_cmds, _EMPTY_TREE_SHA)
           /\ n = 1 => RanDiff(gd_cmds) /\ DiffsAgainst(gd_cmds, gd_commit.parents[1])
           /\ n > 1 => /\ ~RanDiff(gd_cmds)
                       /\ gd_out.diff_stat = MergeNote(gd_commit.hash)
                       /\ gd_out.diff_patch = gd_out.diff_stat

\* C18: get_diff diffs a root commit against the empty tree, a one-parent
\* commit against its parent, and for a commit with several parents runs no
\* diff and returns one omission notice as stat and patch; _parse_numstat
\* returns (0, 0, 0) for exactly the commits with more than one parent.
C18_DiffBaseAndZeroesExactlyForMerges ==
    /\ GetDiffByParentCount
    /\ ns_out.done =>
         (ns_out.totals = <<0, 0, 0>> <=> Len(gd_commit.parents) > 1)

\* C18 as the code has it: _parse_numstat returns (0, 0, 0) for every commit
\* with more than one parent, running no diff; a commit with at most one parent
\* gets the count of its numstat lines, which is zero too when it changes no file.
C18_DiffBaseAndZeroesForMerges ==
    /\ GetDiffByParentCount
    /\ ns_out.done =>
         IF Len(gd_commit.parents) > 1
         THEN ns_out.totals = <<0, 0, 0>> /\ ~RanDiff(ns_cmds)
         ELSE RanDiff(ns_cmds) /\ ns_out.totals[1] = Len(gd_commit.files)

C18_Witness ==
    /\ ns_out.done
    /\ Len(gd_commit.parents) > 1
    /\ gd_commit.files # <<>>
    /\ ns_out.totals = <<0, 0, 0>>
    /\ gd_out.diff_patch = MergeNote(gd_commit.hash)

(***************************************************************************)
(* Properties of validate_cache and the commit command.                    *)
(***************************************************************************)
CacheLoaded == cm_pc # "start" /\ cm_in.repo_ok /\ cm_in.cache = "ok"

HeadMatches == cm_in.live.ok /\ cm_in.live.hash = cm_in.result.head_hash

ValidExactlyOnMatch ==
    validate_cache(cm_in.live, cm_in.result).is_valid <=> HeadMatches

Warned == \E i \in 1..Len(cm_err) : Head(cm_err[i]) = "Warning: "

\* The cached messages the options --only and --skip leave.
Selected(msg) ==
    /\ OptionGiven(cm_in.only) => msg.short_hash \in OptionSet(cm_in.only.text)
    /\ OptionGiven(cm_in.skip) => msg.short_hash \notin OptionSet(cm_in.skip.text)

\* C19: validate_cache returns valid exactly when the stored head hash is
\* the live HEAD, and on a cache that is not valid the commit command prints
\* a warning and goes on to the commit flow with the cached messages.
C19_StaleCacheContinuesToFlow ==
    CacheLoaded =>
        /\ ValidExactlyOnMatch
        /\ ~HeadMatches =>
             /\ Warned
             /\ cm_pc = "flow"
             /\ cm_flow = [called |-> TRUE, messages |-> cm_in.result.messages]

\* C19 as the code has it: on a cache that is not valid the command prints a
\* warning and goes on as it does on a valid one: to the commit flow with the
\* cached messages that --only and --skip leave, or, when they leave none, to
\* exit code 0 without the commit flow.
C19_StaleCacheOnlyWarns ==
    CacheLoaded =>
        /\ ValidExactlyOnMatch
        /\ Warned <=> ~HeadMatches
        /\ cm_code = 0
        /\ LET kept == SelectSeq(cm_in.result.messages, Selected)
           IN IF kept = <<>>
              THEN cm_pc = "exit" /\ ~cm_flow.called
              ELSE cm_pc = "flow" /\ cm_flow = [called |-> TRUE, messages |-> kept]

C19_Witness ==
    /\ CacheLoaded
    /\ cm_in.live.ok
    /\ ~HeadMatches
    /\ Warned
    /\ cm_pc = "flow"
    /\ cm_flow.messages = cm_in.result.messages
    /\ cm_flow.messages # <<>>

C19_WitnessUnreadable ==
    /\ CacheLoaded
    /\ ~cm_in.live.ok
    /\ Warned
    /\ cm_pc = "flow"

(***************************************************************************)
(* Properties of create_backup.                                            *)
(***************************************************************************)
\* C20: any two calls of create_backup on one repository produce two
\* different branch names, so the second never collides with the branch
\* made by the first.
C20_BackupNamesAlwaysDiffer ==
    \A i, j \in 1..Len(bk_log) :
        i < j => bk_log[i].name # bk_log[j].name

\* C20 as the code has it: two calls made in different seconds produce two
\* different branch names, and so do any two calls that both return; a call
\* in the second of an earlier successful call computes the same name and fails.
C20_BackupNamesDifferAcrossSeconds ==
    \A i, j \in 1..Len(bk_log) :
        i < j =>
          /\ Timestamp(bk_log[i].at) # Timestamp(bk_log[j].at)
               => bk_log[i].name # bk_log[j].name
          /\ bk_log[i].ok /\ bk_log[j].ok => bk_log[i].name # bk_log[j].name
          /\ bk_log[i].ok /\ Timestamp(bk_log[i].at) = Timestamp(bk_log[j].at)
               => bk_log[i].name = bk_log[j].name /\ ~bk_log[j].ok

C20_Witness ==
    /\ Len(bk_log) >= 2
    /\ bk_log[1].ok
    /\ bk_log[2].ok
    /\ bk_log[1].name # bk_log[2].name
    /\ DictHas(bk_repo.branches, bk_log[1].name)
    /\ DictHas(bk_repo.branches, bk_log[2].name)

(***************************************************************************)
(* Properties of the rewrite invocation inside rewrite_history.            *)
(***************************************************************************)
MappingComplete ==
    \A i \in 1..Len(messages) : DictHas(hash_map, messages[i].hash)

\* C25: rewrite_history invokes filter-repo at most once, and exactly once in
\* every call that gets as far as the rewrite (so in every call that returns),
\* whatever the number of messages; when the invocation starts the mapping
\* holds an entry for the full hash of every message and is what the callback
\* file was written from, and the mapping never changes afterwards.
C25_OneInvocationOnCompleteMapping ==
    /\ [](filter_calls <= 1)
    /\ [](filter_calls = 1 <=> Logged(Ev("filter", "start")))
    /\ [](pc = "returned" => filter_calls = 1)
    /\ [](filter_calls = 1 => MappingComplete)
    /\ [][filter_calls' # filter_calls =>
            /\ filter_calls' = 1
            /\ MappingComplete
            /\ callback_file.exists
            /\ callback_file.script = _build_commit_callback(hash_map)]_vars
    /\ [][filter_calls > 0 => hash_map' = hash_map]_vars

C25_Witness ==
    /\ pc = "returned"
    /\ filter_calls = 1
    /\ Len(messages) >= 2
    /\ Len(hash_map) >= 2
    /\ cursor > Len(repo0.commits)

\* C30: when filter-repo fails, restore_remotes is not called in that run (no
\* saved remote is added again, the upstream is not set again), and the
\* callback file is gone after the invocation, failed or not.
C30_NoRestoreAfterFailedRewrite ==
    /\ Logged(Ev("filter", "fail")) =>
          /\ pc = "raised"
          /\ ~Logged(Ev("restore", "start"))
          /\ restore_idx = 1
          /\ repo.remotes = repo0.remotes
          /\ repo.upstream = repo0.upstream
          /\ ~ENABLED (RestoreAdd \/ RestoreTracking)
          /\ ~callback_file.exists
    /\ Logged(Ev("filter", "ok")) => ~callback_file.exists

C30_Witness ==
    /\ Logged(Ev("filter", "fail"))
    /\ remotes # <<>>
    /\ DictHas(remotes, Origin)
    /\ cursor > 1
    /\ ~callback_file.exists

(***************************************************************************)
(* Properties of the --only and --skip filters of the commit command.      *)
(***************************************************************************)
\* The positions of the cached messages that the options select; an option
\* counts as given when it has a non-empty value ("if only:", "if skip:").
SelectedPositions ==
    {i \in 1..Len(cm_in.result.messages) : Selected(cm_in.result.messages[i])}

IsSubsequenceAt(sub, full, keep) ==
    /\ Len(sub) = Cardinality(keep)
    /\ \A i \in keep :
         sub[Cardinality({j \in keep : j <= i})] = full[i]

\* C24: the messages the commit command hands to the commit flow are exactly
\* the cached messages whose short hash is in the --only set (when --only is
\* given) and not in the --skip set (when --skip is given), in cached order;
\* when there is none the command exits with code 0 and starts no commit flow.
C24_FlowGetsSelectedMessages ==
    CacheLoaded =>
        IF SelectedPositions = {}
        THEN cm_pc = "exit" /\ cm_code = 0 /\ ~cm_flow.called /\ cm_flow.messages = <<>>
        ELSE /\ cm_pc = "flow"
             /\ cm_flow.called
             /\ IsSubsequenceAt(cm_flow.messages, cm_in.result.messages, SelectedPositions)

C24_Witness ==
    /\ CacheLoaded
    /\ OptionGiven(cm_in.only)
    /\ OptionGiven(cm_in.skip)
    /\ cm_pc = "flow"
    /\ Len(cm_flow.messages) = 1
    /\ Len(cm_in.result.messages) = 2
    /\ cm_flow.messages[1] = cm_in.result.messages[2]

C24_WitnessNoneLeft ==
    /\ CacheLoaded
    /\ cm_in.result.messages # <<>>
    /\ cm_pc = "exit"
    /\ cm_code = 0

(***************************************************************************)
(* Properties of _run_commit_flow.                                         *)
(***************************************************************************)
Ran(step) == \E i \in 1..Len(fl_log) : fl_log[i][1] = step

RanWith(step, result) == \E i \in 1..Len(fl_log) : fl_log[i] = <<step, result>>

Declined == RanWith("confirm", "no")

\* C23: when the confirmation is asked (yes is false) and declined, the flow ends
\* there: the tool is not checked, history not rewritten, no changelog written,
\* no artifacts committed, nothing pushed; and with an empty message list the
\* flow returns after its one line of output, with none of these steps either.
C23_DeclineOrEmptyRunsNothing ==
    /\ Ran("confirm") => ~fl_in.yes
    /\ Declined =>
         /\ fl_pc = "done"
         /\ fl_exit = "Exit0"
         /\ fl_log = << <<"display", "ok">>, <<"confirm", "no">> >>
    /\ FlowMessages(fl_in) = <<>> =>
         /\ fl_pc \in {"start", "done"}
         /\ fl_pc = "done" =>
              /\ fl_exit = "return"
              /\ fl_log = << <<"echo", "No messages to rewrite.">> >>
         /\ \A s \in {"display", "confirm", "check", "rewrite", "changelog",
                      "artifacts", "push"} : ~Ran(s)

C23_Witness == Declined /\ fl_pc = "done" /\ fl_in.push

C23_WitnessEmpty ==
    /\ fl_in.filtered_given
    /\ fl_in.filtered = <<>>
    /\ fl_in.result_messages # <<>>
    /\ fl_in.yes
    /\ fl_pc = "done"

RewriteReturned(i) == fl_log[i] = <<"rewrite", "ok">>

\* C29: force_push runs only when the push flag is set and rewrite_history has
\* returned earlier in the same call; after a failed tool check or a raise of
\* rewrite_history there is no push, no changelog write and no artifact commit.
C29_PushOnlyAfterRewrite ==
    /\ \A i \in 1..Len(fl_log) :
         fl_log[i][1] = "push" =>
           /\ fl_in.push
           /\ \E j \in 1..(i - 1) : RewriteReturned(j)
    /\ (RanWith("check", "missing") \/ (Ran("rewrite") /\ ~RanWith("rewrite", "ok"))) =>
         /\ fl_pc = "done"
         /\ fl_exit # "none"
         /\ ~Ran("push")
         /\ ~Ran("changelog")
         /\ ~Ran("artifacts")

C29_Witness == RanWith("push", "ok") /\ RanWith("artifacts", "CalledProcessError")

C29_WitnessRewriteRaises ==
    /\ RanWith("rewrite", "RuntimeError")
    /\ fl_in.push
    /\ Truthy(fl_in.changelog_file)

(***************************************************************************)
(* Properties of gitre analyze.                                            *)
(***************************************************************************)
\* A text that is not empty and from which no strategy recovers JSON.
Unrecoverable(text) == Strip(text) # <<>> /\ _extract_json(text).status # "ok"

GenerationEndedOn(text) ==
    /\ az_pc = "exit"
    /\ az_out.raised # "none"
    /\ az_out.text = text

\* C21: when a request returns a text that is not empty and from which no
\* strategy recovers JSON, generate_message raises RuntimeError, and analyze
\* reports "Error generating messages" and exits with code 1, nothing saved.
C21_UnrecoverableTextIsReported ==
    (az_pc = "exit" /\ Unrecoverable(az_out.text)) =>
        /\ az_out.raised = "RuntimeError"
        /\ az_out.err = "Error generating messages"
        /\ az_out.code = 1
        /\ az_out.saved = <<>>

\* The command never saves an analysis after a generation that raised.
C21_NothingSavedWhenGenerationRaises ==
    az_out.raised # "none" => az_out.saved = <<>> /\ az_out.code = 1

C21_WitnessUncaught ==
    /\ GenerationEndedOn(<<"p">>)
    /\ az_out.raised = "ValueError"
    /\ az_out.err = "Traceback"

\* The place in the history of the commit a message is for: 1 is the oldest.
HistoryIndex(msg) == CHOOSE k \in 1..az_in.n : FullHash(k) = msg.hash

Saved == az_out.saved[1]

\* C22: the AnalysisResult analyze saves holds its messages newest-first: of two
\* analysed commits, the message of the later one in history comes first.
C22_SavedMessagesNewestFirst ==
    az_out.saved # <<>> =>
        \A i, j \in 1..Len(Saved.messages) :
            i < j => HistoryIndex(Saved.messages[i]) > HistoryIndex(Saved.messages[j])

\* What the code does: the messages are saved oldest-first, one per commit.
C22_SavedMessagesOldestFirst ==
    az_out.saved # <<>> =>
        /\ Len(Saved.messages) = az_in.n
        /\ Saved.commits_analyzed = az_in.n
        /\ \A i \in 1..Len(Saved.messages) : HistoryIndex(Saved.messages[i]) = i

C22_WitnessOldestFirst ==
    /\ az_out.saved # <<>>
    /\ az_in.n >= 2
    /\ az_in.batch_size = 1
    /\ HistoryIndex(Saved.messages[1]) = 1

(***************************************************************************)
(* Properties of format_changelog.                                         *)
(***************************************************************************)
IsHeading(line) == Len(line) = 3 /\ line[1] = "## [" /\ line[3] = "]"

\* The versions of the section headings of the text, in the order of the text.
Headings ==
    LET lines == SelectSeq(cl_out, IsHeading)
    IN [i \in 1..Len(lines) |-> lines[i][2]]

Untagged(msg) == msg.hash \notin DOMAIN cl_in.tags

Mixed ==
    /\ cl_out # <<>>
    /\ \E i \in 1..Len(cl_in.messages) : Untagged(cl_in.messages[i])
    /\ \E i \in 1..Len(cl_in.messages) : ~Untagged(cl_in.messages[i])

\* Each version has one heading, and the headings are in the order in which
\* the first message of each version occurs in the input.
HeadingsByFirstMessage ==
    /\ Range(Headings) = VersionsOf(cl_in.messages, cl_in.tags)
    /\ \A i, j \in 1..Len(Headings) :
         i < j => FirstAt(cl_in.messages, cl_in.tags, Headings[i])
                    < FirstAt(cl_in.messages, cl_in.tags, Headings[j])

UnreleasedFirst == Headings # <<>> /\ Headings[1] = "Unreleased"

\* C28 as stated: with an untagged and a tagged message in the input, the
\* [Unreleased] section is before every version section, and the version
\* sections are in the order in which their first message occurs in the input.
C28_UnreleasedFirstThenByFirstMessage ==
    Mixed => UnreleasedFirst /\ HeadingsByFirstMessage

\* C28: for a non-empty message list, format_changelog writes one section per
\* version, [Unreleased] for the untagged messages among them, in the order in
\* which the first message of each occurs in the input; so with an untagged and
\* a tagged message, [Unreleased] is before every version section exactly when
\* the first message of the input belongs to it.
C28_SectionsByFirstMessage ==
    (cl_out # <<>> /\ cl_in.messages # <<>>) =>
        /\ HeadingsByFirstMessage
        /\ UnreleasedFirst <=> VersionOf(cl_in.messages[1], cl_in.tags) = "Unreleased"

C28_Witness ==
    /\ Mixed
    /\ ~Untagged(cl_in.messages[1])
    /\ cl_in.tags[cl_in.messages[1].hash] = "v1"
    /\ Headings = <<"v1", "Unreleased", "v2">>

C28_WitnessUnreleasedFirst ==
    /\ Mixed
    /\ Headings = <<"Unreleased", "v2", "v1">>

(***************************************************************************)
(* Properties of get_commits.                                              *)
(***************************************************************************)
\* The records of the output that have at least five fields, by their place.
WellFormed == {i \in 1..Len(lg_raw.shapes) : lg_raw.shapes[i].n >= 5}

\* The place in the output of the record the k-th commit must come from.
WellFormedAt(k) ==
    CHOOSE i \in WellFormed : Cardinality({j \in WellFormed : j < i}) = k - 1

\* The message of the i-th record as git wrote it: the fifth field and all that
\* follows it, surrounding white space apart.
MessageWritten(i) == Strip(JoinFields(i, lg_raw.shapes[i], 5, lg_raw.shapes[i].n))

\* C27: get_commits returns one commit per non-empty record of at least five
\* fields, in the order of the output; a record of fewer fields is skipped with a
\* warning, without raising and without changing what the other records give;
\* a message that holds the field separator is returned whole.
C27_OneCommitPerWellFormedRecord ==
    lg_out.called =>
        /\ Len(lg_out.commits) = Cardinality(WellFormed)
        /\ \A k \in 1..Len(lg_out.commits) :
             LET i == WellFormedAt(k)
                 c == lg_out.commits[k]
             IN /\ c.hash = FullHash(i)
                /\ c.short_hash = ShortHash(i)
                /\ c.author = <<"A">>
                /\ c.date = (IF lg_raw.shapes[i].date_ok THEN "date" ELSE "now")
                /\ c.original_message = MessageWritten(i)
        /\ lg_out.warnings =
             Cardinality({i \in 1..Len(lg_raw.shapes) : lg_raw.shapes[i].n \in 1..4})

C27_Witness ==
    /\ lg_out.called
    /\ Len(lg_raw.shapes) = 2
    /\ lg_raw.shapes[1].n = 3
    /\ lg_raw.shapes[2].n = 6
    /\ Len(lg_out.commits) = 1
    /\ Has(lg_out.commits[1].original_message, _FIELD_SEP)
    /\ lg_out.warnings = 1

====
